---- MODULE Spec2Model ----
(***************************************************************************)
(* Shardy: the per-connection protocol engine (Block, Transport, Protocol, *)
(* Pulse, Payload, Commander) as a state machine.                          *)
(*                                                                         *)
(* One connection endpoint is a record `c`; every method of the source is  *)
(* an operator from the endpoint before the call to the endpoint after it, *)
(* so a handler that calls into other components (Transport.readBody ->    *)
(* Protocol.onData -> Commander.onBlock -> Commander.kick -> ...) is one   *)
(* composed operator and one step of the model.                            *)
(*                                                                         *)
(* Specifications:                                                         *)
(*   Spec      one endpoint (Service or Bot) against an arbitrary peer     *)
(*             that may put any well-framed block on the wire;             *)
(*   SpecPair  a Bot and a Service endpoint connected to each other;       *)
(*   SpecFrame a Transport alone, fed a byte stream in arbitrary chunks.   *)
(***************************************************************************)
EXTENDS Integers, Sequences, FiniteSets, TLC

VARIABLES conn, wire, now, live, stream, frames

vars == <<conn, wire, now, live, stream, frames>>

----------------------------------------------------------------------------
(* Bounds of the model *)

\* PULSE_LIMIT of the environment (ticks before a Service kicks)
PULSE_LIMIT == 2
\* the clock runs from 0 to MaxTime
MaxTime == 1
\* REQUEST_TIMEOUT of the environment, in clock units: a request made at time 0
\* is overdue when the clock reaches MaxTime
REQUEST_TIMEOUT == MaxTime - 1
\* frames an endpoint has written are counted, per block type, up to MaxSent
MaxSent == 2
\* frames in flight towards one endpoint of a connected pair
MaxWire == 2
\* request()/fetch() calls per endpoint
MaxReq == 1
\* request()/fetch() calls of the Bot in SpecApi
MaxIds == 2
\* callbacks subscribed to one command name in SpecSub
MaxSubs == 3
\* extensions of each mode a Server uses in SpecServer
MaxExt == 2
\* calls of Server.use that run init() of one extension in SpecUse
MaxUse == 2
\* frames of a byte stream, and octets of a frame body, in SpecFrame
MaxFrames == 2
MaxBody == 2

----------------------------------------------------------------------------
(* Enumerations *)

BLOCK_HEAD == 4

\* enum BlockType
Handshake == 0
HandshakeAcknowledgement == 1
Heartbeat == 2
Data == 3
Kick == 4
BlockType == {Handshake, HandshakeAcknowledgement, Heartbeat, Data, Kick}

\* enum PayloadType
Request == 0
Command == 1
Response == 2
PayloadType == {Request, Command, Response}

\* enum DisconnectReason
Normal == 0
Timeout == 1
HandshakeFailed == 2
ServerDown == 3
Unknown == 4
DisconnectReason == {Normal, Timeout, HandshakeFailed, ServerDown, Unknown}

\* enum ProtocolState
ProtocolState == {"Start", "Handshake", "Work", "Closed"}

\* enum TransportState
TransportState == {"Head", "Body", "Closed"}

\* enum CommanderMode
CommanderMode == {"Service", "Bot"}

\* enum ValidatorState
ValidatorState == {"Success", "Failed"}

TIMEOUT_ERROR == "timeout"

Side == {"bot", "svc"}
Peer(s) == IF s = "bot" THEN "svc" ELSE "bot"
ModeOf(s) == IF s = "bot" THEN "Bot" ELSE "Service"

----------------------------------------------------------------------------
(* Helpers on sequences and maps *)

Min(a, b) == IF a < b THEN a ELSE b

\* Buffer.alloc(n): n zero octets
Alloc(n) == [i \in 1..n |-> 0]

\* source.copy(target, targetStart, sourceStart, sourceEnd), 0-based offsets;
\* copies what fits and what the source has
BufferCopy(source, target, targetStart, sourceStart, sourceEnd) ==
  LET n == Min(Min(sourceEnd, Len(source)) - sourceStart, Len(target) - targetStart)
  IN  [i \in 1..Len(target) |->
         IF i > targetStart /\ i <= targetStart + n
         THEN source[sourceStart + (i - targetStart)]
         ELSE target[i]]

EmptyMap == [x \in {} |-> 0]
MapSet(f, k, v) == [x \in (DOMAIN f) \cup {k} |-> IF x = k THEN v ELSE f[x]]
MapDelete(f, k) == [x \in (DOMAIN f) \ {k} |-> f[x]]

SetMin(S) == CHOOSE x \in S : \A y \in S : x <= y

RECURSIVE Concat(_)
Concat(ss) == IF ss = <<>> THEN <<>> ELSE Head(ss) \o Concat(Tail(ss))

----------------------------------------------------------------------------
(* Block codec *)

\* a faulty variant: the length is written least significant octet first
encodeLittleEndian(type, body) ==
  LET length == Len(body)
  IN  <<type % 256, length % 256, (length \div 256) % 256, (length \div 65536) % 256>>
        \o body

encode(type, body) ==
  LET length == Len(body)
  IN  <<type % 256, (length \div 65536) % 256, (length \div 256) % 256, length % 256>>
        \o body

decode(data) ==
  LET type   == data[1]
      length == (data[2] * 65536) + (data[3] * 256) + data[4]
      body   == BufferCopy(data, Alloc(length), 0, BLOCK_HEAD, BLOCK_HEAD + length)
  IN  [type |-> type, body |-> body]

BlockCheck(type) == type \in BlockType

----------------------------------------------------------------------------
(* Values of the Commander's `reason` field: a DisconnectReason number, or *)
(* the Buffer that onKick stores there.                                    *)

Num(n) == [tag |-> "number", num |-> n, buf |-> <<>>]
Buf(b) == [tag |-> "buffer", num |-> 0, buf |-> b]

\* reason.toString() as UTF-8 octets (the reasons are one decimal digit)
ReasonText(reason) == <<48 + reason>>

----------------------------------------------------------------------------
(* Validator and Serializer installed in the options.  A handshake or      *)
(* acknowledgement body is the octet 1 when the receiving validator        *)
(* accepts it and 0 when it does not.                                      *)

GoodBody == <<1>>
BadBody == <<0>>

verifyHandshake(body) == IF body = GoodBody THEN "Success" ELSE "Failed"
verifyAcknowledgement(body) == IF body = GoodBody THEN "Success" ELSE "Failed"

Names == <<"echo", "slow">>
Errors == <<"", "timeout", "fail">>
IndexOf(seq, x) == CHOOSE i \in 1..Len(seq) : seq[i] = x

\* serializer.encode / serializer.decode: one octet per field (data is opaque
\* to the engine and left out)
SerializerEncode(p) == <<p.type, IndexOf(Names, p.name), p.id, IndexOf(Errors, p.error)>>
SerializerDecode(body) ==
  [type |-> body[1], name |-> Names[body[2]], id |-> body[3], error |-> Errors[body[4]]]

PayloadEncode(type, name, id, error) ==
  SerializerEncode([type |-> type, name |-> name, id |-> id, error |-> error])
PayloadDecode(data) == SerializerDecode(data)
\* a faulty variant: the error text is not carried by the envelope
PayloadCreateBare(type, name, id, error) ==
  [type |-> type, name |-> name, id |-> id, error |-> ""]

PayloadCreate(type, name, id, error) ==
  [type |-> type, name |-> name, id |-> id, error |-> error]
PayloadCheck(payload) == payload.type \in PayloadType

\* options.commands of a Service: the registered Task names
Commands == {"echo"}

----------------------------------------------------------------------------
(* A connection endpoint after construction (Client -> Commander ->        *)
(* Protocol -> Transport -> Connection, and the Commander's Pulse).        *)

NewConn(mode, upper, vHs, vAck, readySend, counted) ==
  [ mode       |-> mode,
    upper      |-> upper,       \* who listens to Transport.onData
    vHs        |-> vHs,         \* body validator.handshake() produces
    vAck       |-> vAck,        \* body validator.acknowledgement() produces
    readySend  |-> readySend,   \* the user's onReady sends a command
    \* Connection (socket)
    sock       |-> "open",
    \* Transport
    tstate     |-> "Head",
    head       |-> [buffer |-> Alloc(BLOCK_HEAD), offset |-> 0, size |-> BLOCK_HEAD],
    package    |-> [buffer |-> <<>>, offset |-> 0, size |-> 0],
    hung       |-> FALSE,       \* the read loop of processData never exits
    \* Protocol
    pstate     |-> "Start",
    \* Pulse
    checks     |-> 0,
    limit      |-> IF mode = "Bot" THEN 1 ELSE PULSE_LIMIT,
    pulseTimer |-> TRUE,
    \* Commander
    timer      |-> TRUE,
    counter    |-> 0,
    callbacks  |-> EmptyMap,
    names      |-> EmptyMap,
    timeouts   |-> EmptyMap,
    commands   |-> EmptyMap,
    requests   |-> EmptyMap,
    reason     |-> Num(Normal),
    \* observations of the current step (not program state)
    out        |-> <<>>,        \* frames written to the socket
    emits      |-> <<>>,        \* blocks the Protocol passed to onBlock
    calls      |-> <<>>,        \* request callbacks invoked
    fired      |-> <<>>,        \* onReady, tasks and subscription callbacks invoked
    caught     |-> <<>>,        \* blocks the Protocol logged and discarded
    \* observations of the whole run (not program state)
    temits     |-> <<>>,        \* frames a Transport standing alone passed up
    counted    |-> counted,     \* the block types whose frames are counted;
                                \* onReady is counted unless there are none
    sent       |-> [t \in BlockType |-> 0],  \* frames written, up to MaxSent
    kicked     |-> <<>>,        \* bodies of the Kick frames written, if counted
    maxReq     |-> MaxReq,      \* request()/fetch() calls the run makes at most
    maxSubs    |-> 1,           \* callbacks the run subscribes to one command name
    \* Server, as the Client of one accepted socket sees it
    before     |-> <<>>,        \* extensionsBefore
    after      |-> <<>>,        \* extensionsAfter
    listed     |-> TRUE,        \* Server.list holds this Client
    slog       |-> <<>>,        \* callbacks of extensions and Service invoked in
                                \* the current step (not program state)
    pending    |-> <<>>,        \* calls of Server.use waiting at await init()
    inits      |-> <<>>,        \* extensions whose init() was called, in order
    reqs       |-> <<>>,        \* ids returned by request()/fetch()
    done       |-> <<>>,        \* times the callback of each request was invoked
    ready      |-> 0,           \* times onReady fired, up to MaxSent
    disc       |-> <<>>,        \* reasons passed to onDisconnect
    quiet      |-> 0 ]          \* pulse ticks since the last admitted block,
                                \* counted up to QuietCap

QuietCap == PULSE_LIMIT + 2

\* the endpoint as an event or a call finds it
Begin(c) ==
  [c EXCEPT !.out = <<>>, !.emits = <<>>, !.calls = <<>>, !.fired = <<>>, !.caught = <<>>,
            !.slog = <<>>]

----------------------------------------------------------------------------
(* Connection *)

\* a faulty variant: what is written last leaves first
ConnectionSendFront(c, data) ==
  [c EXCEPT !.out = <<data>> \o @,
            !.sent[data[1]] = IF data[1] \in c.counted THEN Min(@ + 1, MaxSent) ELSE @,
            !.kicked = IF data[1] = Kick /\ Kick \in c.counted
                       THEN Append(@, decode(data).body) ELSE @]

ConnectionSend(c, data) ==
  [c EXCEPT !.out = Append(@, data),
            !.sent[data[1]] = IF data[1] \in c.counted THEN Min(@ + 1, MaxSent) ELSE @,
            !.kicked = IF data[1] = Kick /\ Kick \in c.counted
                       THEN Append(@, decode(data).body) ELSE @]

ConnectionClose(c) == [c EXCEPT !.sock = IF @ = "open" THEN "ended" ELSE @]

ConnectionDestroy(c) == [c EXCEPT !.sock = IF @ = "closed" THEN @ ELSE "destroyed"]

----------------------------------------------------------------------------
(* Transport, outbound *)

\* a faulty variant: the state of the Transport is not looked at
TransportDispatchAlways(c, data) == ConnectionSend(c, data)

TransportDispatch(c, data) ==
  IF c.tstate # "Closed" THEN ConnectionSend(c, data) ELSE c

TransportClose(c) == ConnectionClose([c EXCEPT !.tstate = "Closed"])

TransportDestroy(c) == ConnectionDestroy([c EXCEPT !.tstate = "Closed"])

----------------------------------------------------------------------------
(* Protocol, outbound *)

ProtocolDispatch(c, type, body) ==
  IF c.pstate = "Closed" THEN c ELSE TransportDispatch(c, encode(type, body))

send(c, body) == ProtocolDispatch(c, Data, body)

ProtocolHeartbeat(c) == ProtocolDispatch(c, Heartbeat, <<>>)

ProtocolHandshake(c, body) ==
  ProtocolDispatch([c EXCEPT !.pstate = "Handshake"], Handshake, body)

ProtocolAcknowledge(c, body) == ProtocolDispatch(c, HandshakeAcknowledgement, body)

ProtocolKick(c, reason) == ProtocolDispatch(c, Kick, ReasonText(reason))

ProtocolDisconnect(c) == TransportClose([c EXCEPT !.pstate = "Closed"])

ProtocolDestroy(c) == TransportDestroy([c EXCEPT !.pstate = "Closed"])

----------------------------------------------------------------------------
(* Pulse *)

\* a faulty variant: the counter is left as it is
PulseResetNever(c) == c

PulseReset(c) == [c EXCEPT !.checks = 0]

PulseClear(c) == [PulseReset(c) EXCEPT !.pulseTimer = FALSE]

----------------------------------------------------------------------------
(* Commander, outbound API *)

\* a faulty variant: the Protocol is disconnected before the Kick is written
kickAfterClose(c, reason) == PulseClear(ProtocolKick(ProtocolDisconnect(c), reason))

kick(c, reason) == PulseClear(ProtocolDisconnect(ProtocolKick(c, reason)))

heartbeat(c) == ProtocolHeartbeat(c)

handshake(c, data) == ProtocolHandshake(c, data)

acknowledge(c, data) == ProtocolAcknowledge(c, data)

disconnect(c) == ProtocolDisconnect(c)

command(c, name) == send(c, PayloadEncode(Command, name, 0, ""))

\* a faulty variant: the counter is not advanced, so the next call reuses the id
requestSameId(c, name, time) ==
  LET c1 == send(c, PayloadEncode(Request, name, c.counter, ""))
  IN  [c1 EXCEPT !.callbacks = MapSet(@, c.counter, Len(c.reqs) + 1),
                 !.names     = MapSet(@, c.counter, name),
                 !.timeouts  = MapSet(@, c.counter, time),
                 !.reqs      = Append(@, c.counter),
                 !.done      = Append(@, 0)]

\* the callback of the k-th request()/fetch() call is callback number k
request(c, name, time) ==
  LET c1 == send(c, PayloadEncode(Request, name, c.counter, ""))
  IN  [c1 EXCEPT !.callbacks = MapSet(@, c.counter, Len(c.reqs) + 1),
                 !.names     = MapSet(@, c.counter, name),
                 !.timeouts  = MapSet(@, c.counter, time),
                 !.reqs      = Append(@, c.counter),
                 !.done      = Append(@, 0),
                 !.counter   = @ + 1]

\* fetch is request with a promise's resolve as the callback
fetch(c, name, time) ==
  LET c1 == send(c, PayloadEncode(Request, name, c.counter, ""))
  IN  [c1 EXCEPT !.callbacks = MapSet(@, c.counter, Len(c.reqs) + 1),
                 !.names     = MapSet(@, c.counter, name),
                 !.timeouts  = MapSet(@, c.counter, time),
                 !.reqs      = Append(@, c.counter),
                 !.done      = Append(@, 0),
                 !.counter   = @ + 1]

response(c, req) == send(c, PayloadEncode(Response, req.name, req.id, ""))

error(c, req, err) == send(c, PayloadEncode(Response, req.name, req.id, err))

\* a faulty variant: the interval of the timeout scanner is left running
clearTables(c) ==
  [PulseClear(c) EXCEPT !.names = EmptyMap,
                        !.timeouts = EmptyMap,
                        !.commands = EmptyMap,
                        !.requests = EmptyMap,
                        !.callbacks = EmptyMap]

clear(c) ==
  [PulseClear(c) EXCEPT !.timer = FALSE,
                        !.names = EmptyMap,
                        !.timeouts = EmptyMap,
                        !.commands = EmptyMap,
                        !.requests = EmptyMap,
                        !.callbacks = EmptyMap]

\* a faulty variant: the callback of the request is left in its table
cancelRequestKeep(c, id) ==
  [c EXCEPT !.names = MapDelete(@, id),
            !.timeouts = MapDelete(@, id)]

\* a faulty variant: only the callback is removed; the name and the timestamp stay
cancelRequestLate(c, id) ==
  [c EXCEPT !.callbacks = MapDelete(@, id)]

cancelRequest(c, id) ==
  [c EXCEPT !.names = MapDelete(@, id),
            !.callbacks = MapDelete(@, id),
            !.timeouts = MapDelete(@, id)]

\* callbacks are named by the call that subscribed them
addCommand(c, name, callback) ==
  LET list == IF name \in DOMAIN c.commands THEN c.commands[name] ELSE <<>>
  IN  [c EXCEPT !.commands = MapSet(@, name, Append(list, callback))]

\* a faulty variant: a second registration replaces the handler
addOnRequestReplace(c, name, callback) ==
  [c EXCEPT !.requests = MapSet(@, name, callback)]

addOnRequest(c, name, callback) ==
  IF name \in DOMAIN c.requests THEN c
  ELSE [c EXCEPT !.requests = MapSet(@, name, callback)]

\* the position of the first occurrence, as Array.indexOf finds it; 0 for none
FirstIndexOf(list, x) ==
  IF \E i \in 1..Len(list) : list[i] = x
  THEN SetMin({i \in 1..Len(list) : list[i] = x})
  ELSE 0

\* list.splice(index, 1)
Splice(list, index) ==
  [i \in 1..(Len(list) - 1) |-> IF i < index THEN list[i] ELSE list[i + 1]]

\* an argument that was left out
Undefined == "undefined"

cancelCommand(c, name, callback) ==
  IF name \in DOMAIN c.commands
  THEN IF callback = Undefined
       THEN [c EXCEPT !.commands = MapSet(@, name, <<>>)]
       ELSE LET list  == c.commands[name]
                index == FirstIndexOf(list, callback)
            IN  IF index > 0
                THEN [c EXCEPT !.commands = MapSet(@, name, Splice(list, index))]
                ELSE c
  ELSE c

cancelOnRequest(c, name) ==
  IF name \in DOMAIN c.requests
  THEN [c EXCEPT !.requests = MapDelete(@, name)]
  ELSE c

destroy(c) == ProtocolDestroy(clear(c))

----------------------------------------------------------------------------
(* User code reached from the Commander *)

\* a registered Task of the Service: answers a Request, consumes a Command
Task(c, payload) ==
  LET c1 == [c EXCEPT !.fired = Append(@, [cb |-> "task", name |-> payload.name])]
  IN  IF payload.type = Request THEN response(c1, payload) ELSE c1

\* the Service of a Server, as a receiver of its events
TheService == [mode |-> "Service", n |-> 0]

\* list.forEach((item) => item.onClient...(client)), and service.on...(client)
Notify(c, list, event) ==
  [c EXCEPT !.slog = @ \o [i \in 1..Len(list) |-> [who |-> list[i], event |-> event]]]

ServerOnConnect(c) ==
  LET c1 == Notify([c EXCEPT !.listed = TRUE], c.before, "connect")
      c2 == Notify(c1, <<TheService>>, "connect")
  IN  Notify(c2, c.after, "connect")

ServerOnReady(c) ==
  LET c1 == Notify(c, c.before, "ready")
      c2 == Notify(c1, <<TheService>>, "ready")
  IN  Notify(c2, c.after, "ready")

\* list.get(id)! is undefined for a Client the list no longer holds, and
\* client.destroy() then throws: what follows it does not run
ServerOnDisconnect(c, reason) ==
  LET c1 == Notify(c, c.before, "disconnect")
      c2 == Notify(c1, <<TheService>>, "disconnect")
  IN  IF c.listed
      THEN Notify([destroy(c2) EXCEPT !.listed = FALSE], c.after, "disconnect")
      ELSE c2

\* Client.onReady -> Bot.onReady / Server.onReady -> the user's callback
onReady(c) ==
  LET c1 == [c EXCEPT !.ready = IF c.counted # {} THEN Min(@ + 1, MaxSent) ELSE @,
                      !.fired = Append(@, [cb |-> "ready", name |-> ""])]
      c2 == IF c.mode = "Service" THEN ServerOnReady(c1) ELSE c1
  IN  IF c.readySend THEN command(c2, "echo") ELSE c2

\* Client.onDisconnect -> Bot.onClientDisconnect, or Server.onDisconnect,
\* which destroys the client
onDisconnect(c, reason) ==
  LET c1 == [c EXCEPT !.disc = Append(@, reason)]
  IN  IF c.mode = "Service" THEN ServerOnDisconnect(c1, reason) ELSE c1

\* the callback given to request(), or the resolve of fetch()
RequestCallback(c, k, payload) ==
  [c EXCEPT !.calls = Append(@, [cb |-> k, id |-> payload.id, name |-> payload.name,
                                 error |-> payload.error]),
            !.done[k] = @ + 1]

\* a faulty variant: the list is walked from its end
RECURSIVE FanOutReversed(_, _, _)
FanOutReversed(c, list, payload) ==
  IF list = <<>> THEN c
  ELSE FanOutReversed([c EXCEPT !.fired = Append(@, [cb |-> list[Len(list)],
                                                      name |-> payload.name])],
                      SubSeq(list, 1, Len(list) - 1), payload)

\* what the user's callback does when it is called: "reply" answers the
\* request, "offSelf" unsubscribes itself, "offLast" unsubscribes "cb2", "offAll"
\* unsubscribes every callback of the name; any other callback only observes
Effect(c, cb, payload) ==
  CASE cb = "reply"   -> response(c, payload)
    [] cb = "offSelf" -> cancelCommand(c, payload.name, "offSelf")
    [] cb = "offLast" -> cancelCommand(c, payload.name, "cb2")
    [] cb = "offAll"  -> cancelCommand(c, payload.name, Undefined)
    [] OTHER -> c

\* list.splice works on the array that the for-of walks; off(name) without a
\* callback puts a new array in the table and leaves the walked one alone
InPlace(cb) == cb \in {"offSelf", "offLast"}

\* for (const callback of list) callback(payload): the iterator reads
\* list.length and list[index] anew at every turn
RECURSIVE Walk(_, _, _, _)
Walk(c, list, index, payload) ==
  IF index > Len(list) THEN c
  ELSE LET cb == list[index]
           c1 == [c EXCEPT !.fired = Append(@, [cb |-> cb, name |-> payload.name])]
           c2 == Effect(c1, cb, payload)
           walked == IF /\ InPlace(cb)
                        /\ payload.name \in DOMAIN c1.commands
                        /\ c1.commands[payload.name] = list
                     THEN c2.commands[payload.name]
                     ELSE list
       IN  Walk(c2, walked, index + 1, payload)

\* callbacks of on(name, cb), in list order
FanOut(c, list, payload) == Walk(c, list, 1, payload)

----------------------------------------------------------------------------
(* Commander, inbound *)

\* a faulty variant: the Bot writes its Heartbeat when the dispatch is over
onPayloadBeatLast(c, payload) ==
  LET c2 == PulseReset(c)
      c3 == CASE payload.type = Command ->
                   IF c.mode = "Service"
                   THEN IF payload.name \in Commands THEN Task(c2, payload) ELSE c2
                   ELSE IF payload.name \in DOMAIN c2.commands
                        THEN FanOut(c2, c2.commands[payload.name], payload)
                        ELSE c2
              [] payload.type = Request ->
                   IF c.mode = "Service"
                   THEN IF payload.name \in Commands THEN Task(c2, payload) ELSE c2
                   ELSE IF payload.name \in DOMAIN c2.requests
                        THEN FanOut(c2, <<c2.requests[payload.name]>>, payload)
                        ELSE c2
              [] payload.type = Response ->
                   IF payload.id \in DOMAIN c2.callbacks
                   THEN cancelRequest(RequestCallback(c2, c2.callbacks[payload.id], payload),
                                      payload.id)
                   ELSE c2
              [] OTHER -> c2
  IN  IF c.mode = "Bot" THEN heartbeat(c3) ELSE c3

\* a faulty variant: a Service hands every name to a Task
onPayloadAnyName(c, payload) ==
  LET c1 == PulseReset(c)
      c2 == IF c.mode = "Bot" THEN heartbeat(c1) ELSE c1
  IN  CASE payload.type \in {Command, Request} ->
             IF c.mode = "Service"
             THEN Task(c2, payload)
             ELSE IF payload.name \in DOMAIN c2.commands
                  THEN FanOut(c2, c2.commands[payload.name], payload)
                  ELSE c2
        [] payload.type = Response ->
             IF payload.id \in DOMAIN c2.callbacks
             THEN cancelRequest(RequestCallback(c2, c2.callbacks[payload.id], payload),
                                payload.id)
             ELSE c2
        [] OTHER -> c2

onPayload(c, payload) ==
  LET c1 == PulseReset(c)
      c2 == IF c.mode = "Bot" THEN heartbeat(c1) ELSE c1
  IN  CASE payload.type = Command ->
             IF c.mode = "Service"
             THEN IF payload.name \in Commands THEN Task(c2, payload) ELSE c2
             ELSE IF payload.name \in DOMAIN c2.commands
                  THEN FanOut(c2, c2.commands[payload.name], payload)
                  ELSE c2
        [] payload.type = Request ->
             IF c.mode = "Service"
             THEN IF payload.name \in Commands THEN Task(c2, payload) ELSE c2
             ELSE IF payload.name \in DOMAIN c2.requests
                  THEN FanOut(c2, <<c2.requests[payload.name]>>, payload)
                  ELSE c2
        [] payload.type = Response ->
             IF payload.id \in DOMAIN c2.callbacks
             THEN cancelRequest(RequestCallback(c2, c2.callbacks[payload.id], payload),
                                payload.id)
             ELSE c2
        [] OTHER -> c2

\* the for-of over this.timeouts: entries in insertion order, which is id order
RECURSIVE ScanTimeouts(_, _, _)
ScanTimeouts(c, ids, time) ==
  IF ids = {} THEN c
  ELSE LET id == SetMin(ids)
           c1 == IF id \in DOMAIN c.timeouts /\ time - c.timeouts[id] > REQUEST_TIMEOUT
                 THEN onPayload(c, PayloadCreate(Response, c.names[id], id, TIMEOUT_ERROR))
                 ELSE c
       IN  ScanTimeouts(c1, ids \ {id}, time)

onCheckTimeout(c, time) == ScanTimeouts(c, DOMAIN c.timeouts, time)

onClose(c) == onDisconnect(clear(c), c.reason)

\* a faulty variant: a valid handshake is not answered
onHandshakeNoReply(c, block) ==
  LET c1 == PulseReset(c)
  IN  IF verifyHandshake(block.body) = "Success"
      THEN c1
      ELSE kick(c1, HandshakeFailed)

onHandshake(c, block) ==
  LET c1 == PulseReset(c)
  IN  IF verifyHandshake(block.body) = "Success"
      THEN acknowledge(c1, c1.vAck)
      ELSE kick(c1, HandshakeFailed)

\* a faulty variant: the Bot does not verify the acknowledgement
onAcknowledgementEager(c, block) ==
  LET c1 == PulseReset(c)
  IN  IF c.mode = "Bot"
      THEN onReady(acknowledge(c1, c1.vAck))
      ELSE onReady(c1)

\* a faulty variant: the Bot fires onReady before it writes its acknowledgement
onAcknowledgementReadyFirst(c, block) ==
  LET c1 == PulseReset(c)
  IN  IF c.mode = "Bot"
      THEN IF verifyAcknowledgement(block.body) = "Success"
           THEN acknowledge(onReady(c1), c1.vAck)
           ELSE disconnect([c1 EXCEPT !.reason = Num(HandshakeFailed)])
      ELSE onReady(c1)

onAcknowledgement(c, block) ==
  LET c1 == PulseReset(c)
  IN  IF c.mode = "Bot"
      THEN IF verifyAcknowledgement(block.body) = "Success"
           THEN onReady(acknowledge(c1, c1.vAck))
           ELSE disconnect([c1 EXCEPT !.reason = Num(HandshakeFailed)])
      ELSE onReady(c1)

\* a faulty variant: the Bot answers a Heartbeat as the Service does
onHeartbeatEcho(c) == heartbeat(PulseReset(c))

onHeartbeat(c) ==
  LET c1 == PulseReset(c)
  IN  IF c.mode = "Service" THEN heartbeat(c1) ELSE c1

onKick(c, block) == PulseReset([c EXCEPT !.reason = Buf(block.body)])

onPulse(c) ==
  IF c.mode = "Bot" THEN heartbeat(c) ELSE kick(c, Timeout)

onBlock(c, block) ==
  CASE block.type = Handshake -> onHandshake(c, block)
    [] block.type = Heartbeat -> onHeartbeat(c)
    [] block.type = Kick -> onKick(c, block)
    [] block.type = HandshakeAcknowledgement -> onAcknowledgement(c, block)
    [] block.type = Data ->
         LET payload == PayloadDecode(block.body)
         IN  IF PayloadCheck(payload) THEN onPayload(c, payload) ELSE c
    [] OTHER -> c

----------------------------------------------------------------------------
(* Pulse timer *)

onCheckPulse(c) ==
  LET c1 == [c EXCEPT !.checks = @ + 1]
  IN  IF c1.checks > c1.limit THEN onPulse(PulseReset(c1)) ELSE c1

----------------------------------------------------------------------------
(* Protocol, inbound *)

ProtocolOnClose(c) == onClose([c EXCEPT !.pstate = "Closed"])

\* this.onBlock(block), with what the Protocol state was at the call
ProtocolEmit(c, block) ==
  onBlock([c EXCEPT !.emits = Append(@, [type |-> block.type, st |-> c.pstate]),
                    !.quiet = 0],
          block)

\* the block is logged with the state it came in, and discarded
catchBlockForState(c, type) ==
  [c EXCEPT !.caught = Append(@, [type |-> type, st |-> c.pstate])]

\* a faulty variant of the gate: Data is let through before the handshake is
\* complete
ProtocolOnDataEarly(c, data) ==
  IF c.pstate = "Closed" THEN c
  ELSE
    LET block == decode(data)
    IN  IF ~BlockCheck(block.type) THEN catchBlockForState(c, block.type)
        ELSE CASE c.pstate = "Work" ->
                    IF block.type \in {Heartbeat, Kick, Data}
                    THEN ProtocolEmit(c, block)
                    ELSE catchBlockForState(c, block.type)
               [] c.pstate = "Start" ->
                    CASE block.type = Heartbeat -> ProtocolEmit(c, block)
                      [] block.type = Handshake ->
                           [ProtocolEmit(c, block) EXCEPT !.pstate = "Handshake"]
                      [] OTHER -> catchBlockForState(c, block.type)
               [] c.pstate = "Handshake" ->
                    CASE block.type = HandshakeAcknowledgement ->
                           ProtocolEmit([c EXCEPT !.pstate = "Work"], block)
                      [] block.type \in {Heartbeat, Kick, Data} -> ProtocolEmit(c, block)
                      [] OTHER -> catchBlockForState(c, block.type)
               [] OTHER -> c

\* a faulty variant of the gate: a Kick is let through in Start
ProtocolOnDataLax(c, data) ==
  IF c.pstate = "Closed" THEN c
  ELSE
    LET block == decode(data)
    IN  IF ~BlockCheck(block.type) THEN catchBlockForState(c, block.type)
        ELSE CASE c.pstate = "Work" ->
                    IF block.type \in {Heartbeat, Kick, Data}
                    THEN ProtocolEmit(c, block)
                    ELSE catchBlockForState(c, block.type)
               [] c.pstate = "Start" ->
                    CASE block.type \in {Heartbeat, Kick} -> ProtocolEmit(c, block)
                      [] block.type = Handshake ->
                           [ProtocolEmit(c, block) EXCEPT !.pstate = "Handshake"]
                      [] OTHER -> catchBlockForState(c, block.type)
               [] c.pstate = "Handshake" ->
                    CASE block.type = HandshakeAcknowledgement ->
                           ProtocolEmit([c EXCEPT !.pstate = "Work"], block)
                      [] block.type \in {Heartbeat, Kick} -> ProtocolEmit(c, block)
                      [] OTHER -> catchBlockForState(c, block.type)
               [] OTHER -> c

ProtocolOnData(c, data) ==
  IF c.pstate = "Closed" THEN c
  ELSE
    LET block == decode(data)
    IN  IF ~BlockCheck(block.type) THEN catchBlockForState(c, block.type)
        ELSE CASE c.pstate = "Work" ->
                    IF block.type \in {Heartbeat, Kick, Data}
                    THEN ProtocolEmit(c, block)
                    ELSE catchBlockForState(c, block.type)
               [] c.pstate = "Start" ->
                    CASE block.type = Heartbeat -> ProtocolEmit(c, block)
                      [] block.type = Handshake ->
                           [ProtocolEmit(c, block) EXCEPT !.pstate = "Handshake"]
                      [] OTHER -> catchBlockForState(c, block.type)
               [] c.pstate = "Handshake" ->
                    CASE block.type = HandshakeAcknowledgement ->
                           ProtocolEmit([c EXCEPT !.pstate = "Work"], block)
                      [] block.type \in {Heartbeat, Kick} -> ProtocolEmit(c, block)
                      [] OTHER -> catchBlockForState(c, block.type)
               [] OTHER -> c

----------------------------------------------------------------------------
(* Transport, inbound *)

TransportOnError(c) == ProtocolOnClose(TransportClose(c))

TransportOnClose(c) == ProtocolOnClose(TransportClose(c))

\* this.onData(buffer): the Protocol's onData once a Protocol owns the Transport
TransportEmit(c, data) ==
  IF c.upper = "protocol" THEN ProtocolOnData(c, data)
  ELSE [c EXCEPT !.temits = Append(@, data)]

reset(c) ==
  [c EXCEPT !.head = [buffer |-> Alloc(BLOCK_HEAD), offset |-> 0, size |-> BLOCK_HEAD],
            !.package = [buffer |-> <<>>, offset |-> 0, size |-> 0],
            !.tstate = IF @ # "Closed" THEN "Head" ELSE @]

getPackageSize(buffer) == ((buffer[2] * 256) + buffer[3]) * 256 + buffer[4]

\* returns the endpoint and the offset for the next read
readHead(c, buffer, offset) ==
  LET length == Min(c.head.size - c.head.offset, Len(buffer) - offset)
      result == offset + length
      hbuf   == BufferCopy(buffer, c.head.buffer, c.head.offset, offset, result)
      hoff   == c.head.offset + length
      c1     == [c EXCEPT !.head.buffer = hbuf, !.head.offset = hoff]
  IN  IF hoff >= c.head.size
      THEN LET size    == getPackageSize(hbuf)
               result1 == IF size < 0 THEN 0 ELSE result
           IN  IF BlockCheck(hbuf[1])
               THEN [c |-> [c1 EXCEPT
                              !.package = [size   |-> size + c.head.size,
                                           buffer |-> BufferCopy(hbuf, Alloc(size + c.head.size),
                                                                 0, 0, c.head.size),
                                           offset |-> c.head.size],
                              !.tstate = "Body"],
                     result |-> result1]
               ELSE [c |-> c1, result |-> Len(buffer)]
      ELSE [c |-> c1, result |-> result]

readBody(c, buffer, offset) ==
  LET length == Min(c.package.size - c.package.offset, Len(buffer) - offset)
      result == offset + length
      pbuf   == BufferCopy(buffer, c.package.buffer, c.package.offset, offset, result)
      poff   == c.package.offset + length
      c1     == [c EXCEPT !.package.buffer = pbuf, !.package.offset = poff]
  IN  IF poff = c.package.size
      THEN [c |-> reset(TransportEmit(c1, pbuf)), result |-> result]
      ELSE [c |-> c1, result |-> result]

\* a faulty variant of the loop: the body is read only on the next pass
\* (`else if` for the second `if`)
RECURSIVE ReadLoopElseIf(_, _, _)
ReadLoopElseIf(c, buffer, offset) ==
  IF offset >= Len(buffer) THEN c
  ELSE IF c.tstate = "Closed" THEN [c EXCEPT !.hung = TRUE]
  ELSE LET b == IF c.tstate = "Head" THEN readHead(c, buffer, offset)
                ELSE readBody(c, buffer, offset)
       IN  ReadLoopElseIf(b.c, buffer, b.result)

\* the while loop of processData; with the Transport Closed and octets left it
\* reads nothing and never exits
RECURSIVE ReadLoop(_, _, _)
ReadLoop(c, buffer, offset) ==
  IF offset >= Len(buffer) THEN c
  ELSE IF c.tstate = "Closed" THEN [c EXCEPT !.hung = TRUE]
  ELSE LET h == IF c.tstate = "Head" THEN readHead(c, buffer, offset)
                ELSE [c |-> c, result |-> offset]
           b == IF h.c.tstate = "Body" THEN readBody(h.c, buffer, h.result)
                ELSE h
       IN  ReadLoop(b.c, buffer, b.result)

processData(c, buffer) ==
  IF c.tstate = "Closed" THEN c ELSE ReadLoop(c, buffer, 0)

----------------------------------------------------------------------------
(* The environment: sockets, timers, the peer and the user's calls *)

\* endpoint s becomes c2; what it wrote travels to a connected peer
Becomes(s, c2) ==
  /\ conn' = [conn EXCEPT ![s] = c2]
  /\ wire' = IF live = Side
             THEN [wire EXCEPT ![Peer(s)] = @ \o c2.out]
             ELSE wire

Running(s) == s \in live /\ ~conn[s].hung

HeartbeatFrame == encode(Heartbeat, <<>>)

\* frames an arbitrary peer may send, one whole frame per chunk; the last has a
\* block type that is no BlockType
PeerFrames ==
  {encode(Handshake, GoodBody), encode(Handshake, BadBody),
   encode(HandshakeAcknowledgement, GoodBody), encode(HandshakeAcknowledgement, BadBody),
   encode(Heartbeat, <<>>), encode(Kick, ReasonText(Timeout)),
   encode(Data, PayloadEncode(Request, "echo", 0, "")),
   encode(Data, PayloadEncode(Command, "echo", 0, "")),
   encode(Data, PayloadEncode(Response, "echo", 0, "")),
   encode(Data, PayloadEncode(Response, "echo", 1, "fail")),
   encode(Data, PayloadEncode(7, "echo", 0, "")),
   encode(7, <<>>)}

\* socket 'data' event with a chunk of an arbitrary peer
Receive(s, chunk) ==
  /\ Running(s) /\ live = {s}
  /\ conn[s].sock \in {"open", "ended"}
  /\ Becomes(s, processData(Begin(conn[s]), chunk))
  /\ UNCHANGED <<now, live, stream, frames>>

\* socket 'data' event with the next frame the connected peer wrote
Deliver(s) ==
  /\ Running(s) /\ live = Side
  /\ wire[s] # <<>>
  /\ Len(wire[Peer(s)]) < MaxWire
  /\ conn[s].sock \in {"open", "ended"}
  /\ LET c2 == processData(Begin(conn[s]), Head(wire[s]))
     IN  /\ conn' = [conn EXCEPT ![s] = c2]
         /\ wire' = [wire EXCEPT ![s] = Tail(@), ![Peer(s)] = @ \o c2.out]
  /\ UNCHANGED <<now, live, stream, frames>>

\* socket 'close' event
SockClose(s) ==
  /\ Running(s)
  /\ conn[s].sock # "closed"
  /\ Becomes(s, TransportOnClose([Begin(conn[s]) EXCEPT !.sock = "closed"]))
  /\ UNCHANGED <<now, live, stream, frames>>

\* socket 'error' event; the socket is destroyed and its 'close' follows
SockError(s) ==
  /\ Running(s)
  /\ conn[s].sock \in {"open", "ended"}
  /\ Becomes(s, TransportOnError([Begin(conn[s]) EXCEPT !.sock = "destroyed"]))
  /\ UNCHANGED <<now, live, stream, frames>>

\* the Pulse interval timer
Tick(s) ==
  /\ Running(s)
  /\ conn[s].pulseTimer
  /\ live = Side => Len(wire[Peer(s)]) < MaxWire
  /\ Becomes(s, onCheckPulse([Begin(conn[s]) EXCEPT
                                !.quiet = Min(@ + 1, QuietCap)]))
  /\ UNCHANGED <<now, live, stream, frames>>

\* the Commander's timeout interval timer
CheckTimeout(s) ==
  /\ Running(s)
  /\ conn[s].timer
  /\ Becomes(s, onCheckTimeout(Begin(conn[s]), now))
  /\ UNCHANGED <<now, live, stream, frames>>

\* the clock; it is read only through the timestamps of pending requests
Advance ==
  /\ now < MaxTime
  /\ \E s \in live : DOMAIN conn[s].timeouts # {}
  /\ now' = now + 1
  /\ conn' = [s \in Side |-> Begin(conn[s])]
  /\ UNCHANGED <<wire, live, stream, frames>>

DoRequest(s, name) ==
  /\ Running(s)
  /\ Len(conn[s].reqs) < conn[s].maxReq
  /\ Becomes(s, request(Begin(conn[s]), name, now))
  /\ UNCHANGED <<now, live, stream, frames>>

DoFetch(s, name) ==
  /\ Running(s)
  /\ Len(conn[s].reqs) < conn[s].maxReq
  /\ Becomes(s, fetch(Begin(conn[s]), name, now))
  /\ UNCHANGED <<now, live, stream, frames>>

DoCancel(s, id) ==
  /\ Running(s)
  /\ id \in DOMAIN conn[s].callbacks
  /\ Becomes(s, cancelRequest(Begin(conn[s]), id))
  /\ UNCHANGED <<now, live, stream, frames>>

DoCommand(s, name) ==
  /\ Running(s)
  /\ Becomes(s, command(Begin(conn[s]), name))
  /\ UNCHANGED <<now, live, stream, frames>>

\* Client.handshake: the validator makes the body
DoHandshake(s) ==
  /\ Running(s)
  /\ live = Side => conn[s].sent[Handshake] = 0
  /\ Becomes(s, handshake(Begin(conn[s]), conn[s].vHs))
  /\ UNCHANGED <<now, live, stream, frames>>

DoDisconnect(s) ==
  /\ Running(s)
  /\ Becomes(s, disconnect(Begin(conn[s])))
  /\ UNCHANGED <<now, live, stream, frames>>

DoKick(s, reason) ==
  /\ Running(s)
  /\ Becomes(s, kick(Begin(conn[s]), reason))
  /\ UNCHANGED <<now, live, stream, frames>>

DoDestroy(s) ==
  /\ Running(s)
  /\ Becomes(s, destroy(Begin(conn[s])))
  /\ UNCHANGED <<now, live, stream, frames>>

\* the callbacks subscribed to a command name
Subscribed(c, name) == IF name \in DOMAIN c.commands THEN c.commands[name] ELSE <<>>

\* Client.on
DoOn(s, name, callback) ==
  /\ Running(s)
  /\ Len(Subscribed(conn[s], name)) < conn[s].maxSubs
  /\ Becomes(s, addCommand(Begin(conn[s]), name, callback))
  /\ UNCHANGED <<now, live, stream, frames>>

\* Client.off, with a callback or without one
DoOff(s, name, callback) ==
  /\ Running(s)
  /\ Becomes(s, cancelCommand(Begin(conn[s]), name, callback))
  /\ UNCHANGED <<now, live, stream, frames>>

\* Client.onRequest
DoOnRequest(s, name, callback) ==
  /\ Running(s)
  /\ Becomes(s, addOnRequest(Begin(conn[s]), name, callback))
  /\ UNCHANGED <<now, live, stream, frames>>

\* Client.offRequest
DoOffRequest(s, name) ==
  /\ Running(s)
  /\ Becomes(s, cancelOnRequest(Begin(conn[s]), name))
  /\ UNCHANGED <<now, live, stream, frames>>

\* user code that makes a request, sends a command and answers a request, one
\* call after the other
Burst(c, n1, n2, req, time) == response(command(request(c, n1, time), n2), req)

DoBurst(s, n1, n2, req) ==
  /\ Running(s)
  /\ Len(conn[s].reqs) < conn[s].maxReq
  /\ Becomes(s, Burst(Begin(conn[s]), n1, n2, req, now))
  /\ UNCHANGED <<now, live, stream, frames>>

\* a chunk of the byte stream reaches a Transport that stands alone
Feed(k) ==
  /\ live = {}
  /\ k \in 1..Len(stream)
  /\ conn' = [conn EXCEPT !["svc"] = processData(Begin(@), SubSeq(stream, 1, k))]
  /\ stream' = SubSeq(stream, k + 1, Len(stream))
  /\ UNCHANGED <<wire, now, live, frames>>

----------------------------------------------------------------------------
(* Specifications *)

Fresh(s) == NewConn(ModeOf(s), "protocol", GoodBody, GoodBody, FALSE, {})

Init ==
  /\ \E s \in Side : live = {s}
  /\ conn = [s \in Side |-> Fresh(s)]
  /\ wire = [s \in Side |-> <<>>]
  /\ now = 0
  /\ stream = <<>>
  /\ frames = <<>>

Next ==
  \/ \E s \in Side, chunk \in PeerFrames : Receive(s, chunk)
  \/ \E s \in Side : SockClose(s)
  \/ \E s \in Side : SockError(s)
  \/ \E s \in Side : Tick(s)
  \/ \E s \in Side : CheckTimeout(s)
  \/ Advance
  \/ \E s \in Side, name \in {"echo"} : DoRequest(s, name)
  \/ \E s \in Side, name \in {"echo"} : DoFetch(s, name)
  \/ \E s \in Side, id \in 0..MaxReq : DoCancel(s, id)
  \/ \E s \in Side, name \in {"echo"} : DoCommand(s, name)
  \/ \E s \in Side : DoHandshake(s)
  \/ \E s \in Side : DoDisconnect(s)
  \/ \E s \in Side, reason \in {ServerDown, Unknown} : DoKick(s, reason)
  \/ \E s \in Side : DoDestroy(s)

Spec == Init /\ [][Next]_vars

\* a Bot that subscribes, and makes up to MaxIds requests
ApiFrames ==
  {encode(HandshakeAcknowledgement, GoodBody),
   encode(Data, PayloadEncode(Request, "echo", 0, "")),
   encode(Data, PayloadEncode(Command, "echo", 0, "")),
   encode(Data, PayloadEncode(Response, "echo", 0, "")),
   encode(Data, PayloadEncode(Response, "echo", 1, "fail"))}

InitApi ==
  /\ live = {"bot"}
  /\ conn = [s \in Side |-> [Fresh(s) EXCEPT !.maxReq = MaxIds]]
  /\ wire = [s \in Side |-> <<>>]
  /\ now = 0
  /\ stream = <<>>
  /\ frames = <<>>

NextApi ==
  \/ \E s \in Side, chunk \in ApiFrames : Receive(s, chunk)
  \/ \E s \in Side : SockClose(s)
  \/ \E s \in Side : SockError(s)
  \/ \E s \in Side : Tick(s)
  \/ \E s \in Side : CheckTimeout(s)
  \/ Advance
  \/ \E s \in Side, name \in {"echo"} : DoRequest(s, name)
  \/ \E s \in Side, name \in {"echo"} : DoFetch(s, name)
  \/ \E s \in Side, id \in 0..MaxIds : DoCancel(s, id)
  \/ \E s \in Side, name \in {"echo"} : DoCommand(s, name)
  \/ \E s \in Side, name \in {"echo"} : DoOn(s, name, "on")
  \/ \E s \in Side, name \in {"echo"} : DoOnRequest(s, name, "onRequest")
  \/ \E s \in Side : DoHandshake(s)

SpecApi == InitApi /\ [][NextApi]_vars

\* a Bot that subscribes to and unsubscribes from the commands of its server
Callbacks == {"cb1", "cb2"}

SubNames == {"echo", "slow"}

SubFrames ==
  {encode(HandshakeAcknowledgement, GoodBody)}
    \cup {encode(Data, PayloadEncode(Command, name, 0, "")) : name \in SubNames}

InitSub ==
  /\ live = {"bot"}
  /\ conn = [s \in Side |-> [Fresh(s) EXCEPT !.maxSubs = MaxSubs]]
  /\ wire = [s \in Side |-> <<>>]
  /\ now = 0
  /\ stream = <<>>
  /\ frames = <<>>

NextSub ==
  \/ \E chunk \in SubFrames : Receive("bot", chunk)
  \/ DoHandshake("bot")
  \/ \E name \in SubNames, callback \in Callbacks : DoOn("bot", name, callback)
  \/ \E name \in SubNames, callback \in Callbacks \cup {Undefined} :
       DoOff("bot", name, callback)

SpecSub == InitSub /\ [][NextSub]_vars

\* a Bot whose server writes Commands back to back, so that two come in one
\* chunk, and whose user makes calls back to back
OrderFrames ==
  SubFrames \cup {f1 \o f2 : f1, f2 \in SubFrames \ {encode(HandshakeAcknowledgement, GoodBody)}}

Asked == {PayloadCreate(Request, name, 0, "") : name \in SubNames}

InitOrder ==
  /\ live = {"bot"}
  /\ conn = [s \in Side |-> [Fresh(s) EXCEPT !.maxSubs = Cardinality(Callbacks)]]
  /\ wire = [s \in Side |-> <<>>]
  /\ now = 0
  /\ stream = <<>>
  /\ frames = <<>>

NextOrder ==
  \/ \E chunk \in OrderFrames : Receive("bot", chunk)
  \/ DoHandshake("bot")
  \/ \E name \in SubNames, callback \in Callbacks : DoOn("bot", name, callback)
  \/ \E n1, n2 \in SubNames, req \in Asked : DoBurst("bot", n1, n2, req)

SpecOrder == InitOrder /\ [][NextOrder]_vars

\* an endpoint of either role that takes the envelopes of its peer between the
\* ticks of its Pulse; the Bot answers the requests of its server
BeatFrames ==
  {encode(Handshake, GoodBody), encode(HandshakeAcknowledgement, GoodBody),
   encode(Data, PayloadEncode(Request, "echo", 0, "")),
   encode(Data, PayloadEncode(Command, "echo", 0, "")),
   encode(Data, PayloadEncode(Response, "echo", 0, ""))}

NextBeat ==
  \/ \E s \in Side, chunk \in BeatFrames : Receive(s, chunk)
  \/ \E s \in Side : DoHandshake(s)
  \/ \E s \in Side : Tick(s)
  \/ \E s \in Side : DoRequest(s, "echo")
  \/ DoOn("bot", "echo", "cb1")
  \/ DoOnRequest("bot", "echo", "reply")

SpecBeat == Init /\ [][NextBeat]_vars

\* an endpoint whose peer writes its frames back to back, so that a chunk holds
\* one frame or two
ChunkFrames ==
  LET single == {encode(Handshake, GoodBody), encode(Handshake, BadBody),
                 encode(HandshakeAcknowledgement, GoodBody),
                 encode(HandshakeAcknowledgement, BadBody),
                 HeartbeatFrame}
  IN  single \cup {f1 \o f2 : f1, f2 \in single}

NextChunk ==
  \/ \E s \in Side, chunk \in ChunkFrames : Receive(s, chunk)
  \/ \E s \in Side : DoHandshake(s)
  \/ \E s \in Side : Tick(s)

SpecChunk == Init /\ [][NextChunk]_vars

\* an endpoint whose user may call handshake() again, with the times its
\* onReady fired counted
InitReady ==
  /\ \E s \in Side : live = {s}
  /\ conn = [s \in Side |-> NewConn(ModeOf(s), "protocol", GoodBody, GoodBody, FALSE,
                                     {Handshake})]
  /\ wire = [s \in Side |-> <<>>]
  /\ now = 0
  /\ stream = <<>>
  /\ frames = <<>>

NextReady ==
  \/ \E s \in Side, chunk \in ChunkFrames : Receive(s, chunk)
  \/ \E s \in Side : DoHandshake(s)
  \/ \E s \in Side : Tick(s)

SpecReady == InitReady /\ [][NextReady]_vars

\* a Bot whose command callbacks may unsubscribe while they run; a callback is
\* subscribed at most once
OffCallbacks == {"cb1", "cb2", "offSelf", "offLast"}

InitOff ==
  /\ live = {"bot"}
  /\ conn = [s \in Side |-> [Fresh(s) EXCEPT !.maxSubs = Cardinality(OffCallbacks)]]
  /\ wire = [s \in Side |-> <<>>]
  /\ now = 0
  /\ stream = <<>>
  /\ frames = <<>>

NextOff ==
  \/ \E chunk \in {encode(HandshakeAcknowledgement, GoodBody),
                    encode(Data, PayloadEncode(Command, "echo", 0, ""))} :
       Receive("bot", chunk)
  \/ DoHandshake("bot")
  \/ \E callback \in OffCallbacks :
       /\ FirstIndexOf(Subscribed(conn["bot"], "echo"), callback) = 0
       /\ DoOn("bot", "echo", callback)

SpecOff == InitOff /\ [][NextOff]_vars

\* an endpoint that is closed in each of the ways there are, and written to
\* before and after
CloseFrames ==
  {encode(Handshake, GoodBody), encode(Handshake, BadBody),
   encode(HandshakeAcknowledgement, GoodBody), encode(HandshakeAcknowledgement, BadBody),
   HeartbeatFrame, encode(Kick, ReasonText(Timeout)),
   encode(Data, PayloadEncode(Request, "echo", 0, ""))}

NextClose ==
  \/ \E s \in Side, chunk \in CloseFrames : Receive(s, chunk)
  \/ \E s \in Side : SockClose(s)
  \/ \E s \in Side : SockError(s)
  \/ \E s \in Side : Tick(s)
  \/ \E s \in Side : DoCommand(s, "echo")
  \/ \E s \in Side : DoHandshake(s)
  \/ \E s \in Side : DoDisconnect(s)
  \/ \E s \in Side, reason \in {ServerDown, Unknown} : DoKick(s, reason)
  \/ \E s \in Side : DoDestroy(s)

SpecClose == Init /\ [][NextClose]_vars

\* a Bot that sets and removes the handlers of its server's requests
ReqFrames ==
  {encode(HandshakeAcknowledgement, GoodBody)}
    \cup {encode(Data, PayloadEncode(Request, name, 0, "")) : name \in SubNames}

NextReq ==
  \/ \E chunk \in ReqFrames : Receive("bot", chunk)
  \/ DoHandshake("bot")
  \/ \E name \in SubNames, callback \in Callbacks : DoOnRequest("bot", name, callback)
  \/ \E name \in SubNames : DoOffRequest("bot", name)
  \/ SockClose("bot")

SpecReq == InitSub /\ [][NextReq]_vars

\* a Server and the sockets it accepts: every endpoint is a Client in Service
\* mode, and live is the set of sockets accepted so far
Extensions(mode, n) == [i \in 1..n |-> [mode |-> mode, n |-> i]]

ServerFrames ==
  {encode(Handshake, GoodBody), encode(HandshakeAcknowledgement, GoodBody)}

\* Server.use up to its await: the list is searched and init() is called
useBegin(c, extension) ==
  LET list == IF extension.mode = "Before" THEN c.before ELSE c.after
  IN  IF FirstIndexOf(list, extension) = 0
      THEN [c EXCEPT !.inits = Append(@, extension), !.pending = Append(@, extension)]
      ELSE c

\* Server.use after its await: the extension is pushed
useResume(c, index) ==
  LET extension == c.pending[index]
      c1 == [c EXCEPT !.pending = Splice(@, index)]
  IN  IF extension.mode = "Before"
      THEN [c1 EXCEPT !.before = Append(@, extension)]
      ELSE [c1 EXCEPT !.after = Append(@, extension)]

\* how often x is in the list
RECURSIVE Occurs(_, _)
Occurs(list, x) ==
  IF list = <<>> THEN 0
  ELSE (IF Head(list) = x THEN 1 ELSE 0) + Occurs(Tail(list), x)

\* the user calls server.use(extension)
Use(extension) ==
  /\ Occurs(conn["svc"].inits, extension) < MaxUse
  /\ conn' = [conn EXCEPT !["svc"] = useBegin(@, extension)]
  /\ UNCHANGED <<wire, now, live, stream, frames>>

\* the promise of an init() is settled and the call that awaits it goes on
UseResume(index) ==
  /\ index \in 1..Len(conn["svc"].pending)
  /\ conn' = [conn EXCEPT !["svc"] = useResume(@, index)]
  /\ UNCHANGED <<wire, now, live, stream, frames>>

\* the Server's 'connection' event
ServerConnect(s) ==
  /\ s \notin live
  /\ live' = live \cup {s}
  /\ conn' = [conn EXCEPT ![s] = ServerOnConnect(Begin(@))]
  /\ UNCHANGED <<wire, now, stream, frames>>

\* socket 'data' event of an accepted socket
ClientData(s, chunk) ==
  /\ Running(s)
  /\ conn[s].sock \in {"open", "ended"}
  /\ conn' = [conn EXCEPT ![s] = processData(Begin(@), chunk)]
  /\ UNCHANGED <<wire, now, live, stream, frames>>

\* socket 'close' event of an accepted socket
ClientClose(s) ==
  /\ Running(s)
  /\ conn[s].sock # "closed"
  /\ conn' = [conn EXCEPT ![s] = TransportOnClose([Begin(@) EXCEPT !.sock = "closed"])]
  /\ UNCHANGED <<wire, now, live, stream, frames>>

\* Client.disconnect, called by the Service on one of its Clients
ClientDisconnect(s) ==
  /\ Running(s)
  /\ conn[s].sock = "open"
  /\ conn' = [conn EXCEPT ![s] = disconnect(Begin(@))]
  /\ UNCHANGED <<wire, now, live, stream, frames>>

\* Server.stop
ServerStop ==
  /\ conn' = [s \in Side |->
               IF s \in live /\ conn[s].listed
               THEN [kick(Begin(conn[s]), ServerDown) EXCEPT !.listed = FALSE]
               ELSE [Begin(conn[s]) EXCEPT !.listed = FALSE]]
  /\ UNCHANGED <<wire, now, live, stream, frames>>

InitServer ==
  /\ live = {}
  /\ \E nb, na \in 0..MaxExt :
       conn = [s \in Side |->
                 [NewConn("Service", "protocol", GoodBody, GoodBody, FALSE, {})
                    EXCEPT !.before = Extensions("Before", nb),
                           !.after = Extensions("After", na),
                           !.listed = FALSE]]
  /\ wire = [s \in Side |-> <<>>]
  /\ now = 0
  /\ stream = <<>>
  /\ frames = <<>>

\* a Server before it starts, given its extensions
UseExtensions ==
  {[mode |-> "Before", n |-> 1], [mode |-> "After", n |-> 1]}

InitUse ==
  /\ live = {}
  /\ conn = [s \in Side |-> NewConn("Service", "protocol", GoodBody, GoodBody, FALSE, {})]
  /\ wire = [s \in Side |-> <<>>]
  /\ now = 0
  /\ stream = <<>>
  /\ frames = <<>>

NextUse ==
  \/ \E extension \in UseExtensions : Use(extension)
  \/ \E index \in 1..(MaxUse * Cardinality(UseExtensions)) : UseResume(index)

SpecUse == InitUse /\ [][NextUse]_vars

NextServer ==
  \/ \E s \in Side : ServerConnect(s)
  \/ \E s \in Side, chunk \in ServerFrames : ClientData(s, chunk)
  \/ \E s \in Side : ClientClose(s)
  \/ \E s \in Side : ClientDisconnect(s)
  \/ ServerStop

SpecServer == InitServer /\ [][NextServer]_vars

\* a Bot and a Service connected to each other
InitPair ==
  /\ live = Side
  /\ \E vh \in {GoodBody, BadBody}, va \in [Side -> {GoodBody, BadBody}], rs \in BOOLEAN :
       conn = [s \in Side |-> NewConn(ModeOf(s), "protocol", vh, va[s], s = "bot" /\ rs,
                                   {Handshake, HandshakeAcknowledgement, Kick})]
  /\ wire = [s \in Side |-> <<>>]
  /\ now = 0
  /\ stream = <<>>
  /\ frames = <<>>

NextPair ==
  \/ \E s \in Side : Deliver(s)
  \/ DoHandshake("bot")
  \/ \E s \in Side : Tick(s)
  \/ \E s \in Side : SockClose(s)

SpecPair == InitPair /\ [][NextPair]_vars

\* the pair, with a Service that may also kick (Server.stop, or the user)
NextKick ==
  \/ NextPair
  \/ \E reason \in {ServerDown, Unknown} : DoKick("svc", reason)

SpecKick == InitPair /\ [][NextKick]_vars

\* a Bot that asks its Service for what the Service has and for what it has not
AskNames == {"echo", "slow"}

InitAsk ==
  /\ live = Side
  /\ conn = [s \in Side |-> NewConn(ModeOf(s), "protocol", GoodBody, GoodBody, FALSE,
                                     {Handshake})]
  /\ wire = [s \in Side |-> <<>>]
  /\ now = 0
  /\ stream = <<>>
  /\ frames = <<>>

\* nothing is in flight
Idle == \A s \in Side : wire[s] = <<>>

NextAsk ==
  \/ \E s \in Side : Deliver(s)
  \/ DoHandshake("bot")
  \/ \E name \in AskNames : Idle /\ DoRequest("bot", name)
  \/ \E name \in AskNames : Idle /\ DoCommand("bot", name)
  \/ CheckTimeout("bot")
  \/ Advance

SpecAsk == InitAsk /\ [][NextAsk]_vars

\* a Bot and its Service that tick with the same interval, one half an
\* interval after the other; now is the half of the interval, 0 for the tick of
\* the Bot and 1 for the tick of the Service; every frame written is delivered
\* before the next tick; the Bot handshakes and is idle otherwise
TurnOf(s) == IF s = "bot" THEN 0 ELSE 1

TickInTurn(s) ==
  /\ Idle
  /\ now = TurnOf(s)
  /\ Running(s)
  /\ conn[s].pulseTimer
  /\ Becomes(s, onCheckPulse([Begin(conn[s]) EXCEPT !.quiet = Min(@ + 1, QuietCap)]))
  /\ now' = 1 - now
  /\ UNCHANGED <<live, stream, frames>>

InitIdle ==
  /\ live = Side
  /\ \E limit \in 1..PULSE_LIMIT, vh \in {GoodBody, BadBody} :
       conn = [s \in Side |->
                 [NewConn(ModeOf(s), "protocol", vh, GoodBody, FALSE, {Handshake})
                    EXCEPT !.limit = IF s = "svc" THEN limit ELSE @]]
  /\ wire = [s \in Side |-> <<>>]
  /\ now \in {0, 1}
  /\ stream = <<>>
  /\ frames = <<>>

NextIdle ==
  \/ \E s \in Side : Deliver(s)
  \/ \E s \in Side : TickInTurn(s)
  \/ Idle /\ DoHandshake("bot")
  \/ \E s \in Side : conn[s].sock = "ended" /\ SockClose(s)

SpecIdle == InitIdle /\ [][NextIdle]_vars

\* a Transport alone: whole frames with valid types, cut into chunks at will
FrameBody(t, n) == [i \in 1..n |-> 10 * (t + 1) + i]
FrameSet == {encode(t, FrameBody(t, n)) : t \in {Handshake, Data, Kick}, n \in 0..MaxBody}

InitFrame ==
  /\ live = {}
  /\ \E n \in 1..MaxFrames : frames \in [1..n -> FrameSet]
  /\ stream = Concat(frames)
  /\ conn = [s \in Side |-> NewConn(ModeOf(s), "probe", GoodBody, GoodBody, FALSE, {})]
  /\ wire = [s \in Side |-> <<>>]
  /\ now = 0

NextFrame == \E k \in 1..(MaxFrames * (BLOCK_HEAD + MaxBody)) : Feed(k)

SpecFrame == InitFrame /\ [][NextFrame]_vars

\* Block.encode and Block.decode alone: a block is encoded, then the frame is
\* decoded; frames holds the block given and the block got back, stream the
\* encoded frame
Octets == {0, 1, 255}

LongLengths == {255, 256, 65535, 65536, 65793}

CodecBodies ==
  UNION {[1..n -> Octets] : n \in 0..MaxBody}
    \cup {[i \in 1..n |-> i % 256] : n \in LongLengths}

EncodeBlock(type, body) ==
  /\ frames = <<>>
  /\ frames' = <<[type |-> type, body |-> body]>>
  /\ stream' = encode(type, body)
  /\ UNCHANGED <<conn, wire, now, live>>

DecodeFrame ==
  /\ Len(frames) = 1
  /\ frames' = Append(frames, decode(stream))
  /\ UNCHANGED <<conn, wire, now, live, stream>>

InitCodec ==
  /\ live = {}
  /\ frames = <<>>
  /\ stream = <<>>
  /\ conn = [s \in Side |-> Fresh(s)]
  /\ wire = [s \in Side |-> <<>>]
  /\ now = 0

NextCodec ==
  \/ \E type \in BlockType, body \in CodecBodies : EncodeBlock(type, body)
  \/ DecodeFrame

SpecCodec == InitCodec /\ [][NextCodec]_vars

----------------------------------------------------------------------------
(* Properties *)

\* the k-th request of endpoint c is pending: its callback is in the table
Pending(c, k) == c.reqs[k] \in DOMAIN c.callbacks

\* the step invoked a Task or a subscription callback
Handled(c) == \E i \in 1..Len(c.fired) : c.fired[i].cb # "ready"

\* the step fired onReady
Readied(c) == \E i \in 1..Len(c.fired) : c.fired[i].cb = "ready"

\* the Transport is open and stands at the start of a frame
AtFrameStart(c) == c.tstate = "Head" /\ c.head.offset = 0

\* the step passed a block of type t to the Commander
Emitted(c, t) == \E i \in 1..Len(c.emits) : c.emits[i].type = t

\* C1, as stated: a request whose callback has left the table has been
\* completed exactly once.
C1_ExactlyOnce ==
  \A s \in Side : \A k \in 1..Len(conn[s].reqs) :
    ~Pending(conn[s], k) => conn[s].done[k] = 1

\* C1, amended: the callback of the request with id i is invoked at most once,
\* only with a Response carrying id i whose error is the peer's or "timeout",
\* and it is invoked in the step that takes it out of the table unless that
\* step is cancelRequest(i) or the Commander's clear().
C1_AtMostOnce ==
  /\ [](\A s \in Side :
          /\ \A k \in 1..Len(conn[s].reqs) : conn[s].done[k] <= 1
          /\ \A i \in 1..Len(conn[s].calls) :
               LET call == conn[s].calls[i]
               IN  /\ call.cb \in 1..Len(conn[s].reqs)
                   /\ call.id = conn[s].reqs[call.cb]
                   /\ conn[s].done[call.cb] = 1
                   /\ ~Pending(conn[s], call.cb))
  /\ [][\A s \in Side : \A k \in 1..Len(conn[s].reqs) :
          (Pending(conn[s], k) /\ ~Pending(conn'[s], k)) =>
             \/ /\ conn'[s].done[k] = 1
                /\ \E i \in 1..Len(conn'[s].calls) : conn'[s].calls[i].cb = k
             \/ DoCancel(s, conn[s].reqs[k])
             \/ /\ conn'[s].callbacks = EmptyMap
                /\ ~conn'[s].timer
                /\ conn'[s].calls = <<>>
                /\ conn'[s].done[k] = 0]_vars

\* a request was completed by the synthesized timeout Response
C1_Witness ==
  \E s \in Side :
    /\ Len(conn[s].reqs) >= 1
    /\ conn[s].done[1] = 1
    /\ conn[s].calls = <<[cb |-> 1, id |-> 0, name |-> "echo", error |-> TIMEOUT_ERROR]>>

\* C2: no step that receives a frame with the Protocol not in Work passes a
\* Data block to the Commander or invokes a Task, a subscription callback or a
\* request callback; and the Protocol enters Work only
\* in a step that receives a HandshakeAcknowledgement in state Handshake.
C2_DataOnlyInWork ==
  [][\A s \in Side :
       /\ (/\ conn[s].pstate # "Work"
           /\ (Emitted(conn'[s], Data) \/ Handled(conn'[s]) \/ conn'[s].calls # <<>>))
            => \A f \in PeerFrames : ~Receive(s, f)
       /\ (conn[s].pstate # "Work" /\ conn'[s].pstate = "Work") =>
            /\ conn[s].pstate = "Handshake"
            /\ \E f \in PeerFrames :
                 decode(f).type = HandshakeAcknowledgement /\ Receive(s, f)]_vars

\* a Request that came in Work reached its Task
C2_Witness ==
  \E s \in Side :
    /\ conn[s].emits = <<[type |-> Data, st |-> "Work"]>>
    /\ conn[s].fired = <<[cb |-> "task", name |-> "echo"]>>

\* C3, as stated: a Protocol that is Closed stays Closed in every step, and a
\* step that closes the Transport leaves the Protocol Closed.
C3_ClosedIsTerminal ==
  [][\A s \in Side :
       (\/ conn[s].pstate = "Closed"
        \/ (conn[s].tstate # "Closed" /\ conn'[s].tstate = "Closed"))
         => conn'[s].pstate = "Closed"]_vars

RECURSIVE Whole(_, _)
\* the frames of fs that lie wholly within the first n octets of Concat(fs)
Whole(fs, n) ==
  IF fs = <<>> \/ Len(Head(fs)) > n THEN <<>>
  ELSE <<Head(fs)>> \o Whole(Tail(fs), n - Len(Head(fs)))

\* octets of the stream that processData has been given
Consumed == Len(Concat(frames)) - Len(stream)

\* C4: whatever the chunks, the Transport has passed up exactly the frames
\* whose last octet it has been given, whole and in order; so a frame is
\* passed up in the call that brings its last octet (a frame with an empty
\* body in the call that brings the last octet of its head), and once the
\* stream is consumed the frames passed up are F1..Fn.
C4_Reassembly == conn["svc"].temits = Whole(frames, Consumed)

\* a frame with an empty body ended exactly at the end of a chunk and was
\* passed up, the next frame still unread
C4_Witness ==
  /\ Len(frames) = 2
  /\ Len(frames[1]) = BLOCK_HEAD
  /\ stream = frames[2]
  /\ conn["svc"].temits = <<frames[1]>>

\* the inbound gate table: the block types admitted in each Protocol state
Gate(st) ==
  CASE st = "Start" -> {Handshake, Heartbeat}
    [] st = "Handshake" -> {HandshakeAcknowledgement, Heartbeat, Kick}
    [] st = "Work" -> {Heartbeat, Kick, Data}
    [] OTHER -> {}

\* what a discarded frame leaves alone
Untouched(c, c2) ==
  /\ c2.emits = <<>>
  /\ c2.out = <<>>
  /\ c2.pstate = c.pstate
  /\ c2.tstate = c.tstate
  /\ c2.sock = c.sock
  /\ c2.disc = c.disc
  /\ c2.reason = c.reason
  /\ c2.pulseTimer = c.pulseTimer

\* C5: in every state, receiving a frame whose block type the gate table does
\* not list for the Protocol's state passes no block to the Commander, writes
\* nothing, and leaves the Protocol state, the Transport, the socket, the
\* pulse timer, the reason and the disconnect notifications as they were.
C5_Discard ==
  \A s \in live : \A f \in PeerFrames :
    (/\ Running(s)
     /\ conn[s].sock \in {"open", "ended"}
     /\ decode(f).type \notin Gate(conn[s].pstate))
      => Untouched(conn[s], processData(Begin(conn[s]), f))

\* a Data block that came during the handshake was logged and discarded
C5_Witness ==
  \E s \in Side :
    /\ conn[s].pstate = "Handshake"
    /\ conn[s].tstate = "Head"
    /\ conn[s].caught = <<[type |-> Data, st |-> "Handshake"]>>
    /\ conn[s].emits = <<>>

\* C6: a Service in Start whose Transport stands at the start of a frame and
\* receives a Handshake its validator accepts
\* writes one HandshakeAcknowledgement and nothing else, and is in Handshake
\* without onReady fired; in Handshake, a received HandshakeAcknowledgement
\* takes it to Work and fires onReady; and it enters Work, or fires onReady, in
\* no other step.
C6_ServiceHandshake ==
  [][LET c == conn["svc"]
         c2 == conn'["svc"]
     IN  /\ (c.pstate = "Start" /\ AtFrameStart(c)
               /\ Receive("svc", encode(Handshake, GoodBody)))
              => /\ c2.out = <<encode(HandshakeAcknowledgement, c.vAck)>>
                 /\ c2.pstate = "Handshake"
                 /\ ~Readied(c2)
         /\ (c.pstate = "Handshake" /\ AtFrameStart(c)
               /\ \E body \in {GoodBody, BadBody} :
                    Receive("svc", encode(HandshakeAcknowledgement, body)))
              => /\ c2.pstate = "Work"
                 /\ Readied(c2)
                 /\ c2.out = <<>>
         /\ ((c.pstate # "Work" /\ c2.pstate = "Work") \/ Readied(c2))
              => /\ c.pstate = "Handshake"
                 /\ \E body \in {GoodBody, BadBody} :
                      Receive("svc", encode(HandshakeAcknowledgement, body))]_vars

\* the Service has just entered Work on the peer's acknowledgement
C6_Witness ==
  /\ live = {"svc"}
  /\ conn["svc"].pstate = "Work"
  /\ conn["svc"].emits = <<[type |-> HandshakeAcknowledgement, st |-> "Work"]>>
  /\ conn["svc"].fired = <<[cb |-> "ready", name |-> ""]>>

\* C7, as stated: a Service in Start whose Transport stands at the start of a
\* frame and receives a Handshake its validator rejects writes one Kick with reason Handshake and nothing else, closes the
\* Transport, and is left with the Protocol Closed.
C7_InvalidHandshake ==
  [][LET c == conn["svc"]
         c2 == conn'["svc"]
     IN  (c.pstate = "Start" /\ AtFrameStart(c)
            /\ Receive("svc", encode(Handshake, BadBody)))
           => /\ c2.out = <<encode(Kick, ReasonText(HandshakeFailed))>>
              /\ c2.tstate = "Closed"
              /\ c2.sock = "ended"
              /\ c2.pstate = "Closed"]_vars

\* C8: a Bot in Handshake whose Transport stands at the start of a frame and
\* receives a HandshakeAcknowledgement its validator rejects writes nothing, does not fire onReady, closes Protocol,
\* Transport and socket, and holds the reason Handshake; the reason does not
\* change once the Transport is closed; and every onDisconnect is passed the
\* reason held.
C8_BotRejects ==
  [][LET c == conn["bot"]
         c2 == conn'["bot"]
     IN  /\ (c.pstate = "Handshake" /\ AtFrameStart(c)
               /\ Receive("bot", encode(HandshakeAcknowledgement, BadBody)))
              => /\ c2.out = <<>>
                 /\ ~Readied(c2)
                 /\ c2.pstate = "Closed"
                 /\ c2.tstate = "Closed"
                 /\ c2.sock = "ended"
                 /\ c2.reason = Num(HandshakeFailed)
         /\ c.tstate = "Closed" => c2.reason = c.reason
         /\ c2.disc # c.disc => c2.disc = Append(c.disc, c.reason)]_vars

\* the Bot rejected the acknowledgement and, the socket closed, onDisconnect
\* was passed Handshake
C8_Witness ==
  /\ live = {"bot"}
  /\ conn["bot"].pstate = "Closed"
  /\ conn["bot"].sock = "closed"
  /\ conn["bot"].disc = <<Num(HandshakeFailed)>>

\* both validators accept what the other end sends
Happy ==
  /\ conn["bot"].vHs = GoodBody
  /\ conn["bot"].vAck = GoodBody
  /\ conn["svc"].vAck = GoodBody

\* C9: with validators that accept at both ends and one handshake() of the
\* Bot, each end writes at most the frames of the exchange (the Bot one
\* Handshake and one HandshakeAcknowledgement, the Service one
\* HandshakeAcknowledgement) and fires onReady at most once; when nothing is
\* in flight and neither Transport is closed, all three frames were written,
\* both Protocols are in Work and onReady fired once at each end; and the
\* Service discards no Data, so what the Bot sends from onReady finds it in
\* Work.
C9_HappyHandshake ==
  Happy =>
    /\ conn["bot"].sent[Handshake] <= 1
    /\ conn["svc"].sent[Handshake] = 0
    /\ \A s \in Side : conn[s].sent[HandshakeAcknowledgement] <= 1 /\ conn[s].ready <= 1
    /\ (/\ conn["bot"].sent[Handshake] = 1
        /\ \A s \in Side : wire[s] = <<>> /\ conn[s].tstate # "Closed")
         => \A s \in Side : /\ conn[s].sent[HandshakeAcknowledgement] = 1
                            /\ conn[s].pstate = "Work"
                            /\ conn[s].ready = 1
    /\ \A i \in 1..Len(conn["svc"].caught) : conn["svc"].caught[i].type # Data
    /\ \A i \in 1..Len(conn["svc"].emits) :
         conn["svc"].emits[i].type = Data => conn["svc"].emits[i].st = "Work"

\* the command the Bot sent from onReady has reached the Task of the Service
C9_Witness ==
  /\ Happy
  /\ conn["bot"].readySend
  /\ \A s \in Side : conn[s].pstate = "Work" /\ conn[s].ready = 1
  /\ conn["bot"].sent[Handshake] = 1
  /\ \A s \in Side : conn[s].sent[HandshakeAcknowledgement] = 1
  /\ conn["svc"].emits = <<[type |-> Data, st |-> "Work"]>>
  /\ conn["svc"].fired = <<[cb |-> "task", name |-> "echo"]>>

\* C10, as stated: a pulse tick of an open Service connection writes
\* Kick(Timeout) exactly when it is the (PULSE_LIMIT + 1)-th tick in a row
\* with no block admitted in between, and the kick closes the connection.
C10_KickOnSilence ==
  [][LET c == conn["svc"]
         c2 == conn'["svc"]
         kicked == c2.out = <<encode(Kick, ReasonText(Timeout))>>
     IN  (c.tstate # "Closed" /\ c.pstate # "Closed" /\ Tick("svc"))
           => /\ kicked <=> c2.quiet = PULSE_LIMIT + 1
              /\ kicked => c2.tstate = "Closed" /\ c2.pstate = "Closed"]_vars

\* C11, as stated: once a Service has written a Kick frame with reason r,
\* every onDisconnect of that connection is passed r.
C11_KickReasonReported ==
  \A r \in DisconnectReason :
    conn["svc"].kicked = <<ReasonText(r)>> =>
      \A i \in 1..Len(conn["svc"].disc) : conn["svc"].disc[i] = Num(r)

\* C12, as stated: a pulse tick of an open Bot connection that comes with at
\* least one tick and no admitted block since the last admitted block writes
\* exactly one Heartbeat frame, and no pulse tick of a Bot closes anything.
C12_BotHeartbeats ==
  [][LET c == conn["bot"]
         c2 == conn'["bot"]
     IN  (c.tstate # "Closed" /\ c.pstate # "Closed" /\ Tick("bot"))
           => /\ c.quiet >= 1 => c2.out = <<encode(Heartbeat, <<>>)>>
              /\ c2.pstate = c.pstate
              /\ c2.tstate = c.tstate
              /\ c2.sock = c.sock]_vars

\* C13: a Heartbeat frame that reaches a Service whose Protocol is in Work
\* passes the gate and makes it write exactly one Heartbeat frame; a Heartbeat
\* frame that reaches a Bot, in any state, makes it write nothing.
C13_HeartbeatReply ==
  \A s \in Side :
    LET c  == conn[s]
        c2 == processData(Begin(c), encode(Heartbeat, <<>>))
    IN  (Running(s) /\ c.sock \in {"open", "ended"} /\ AtFrameStart(c))
          => /\ (c.mode = "Service" /\ c.pstate = "Work")
                  => /\ c2.emits = <<[type |-> Heartbeat, st |-> "Work"]>>
                     /\ c2.out = <<encode(Heartbeat, <<>>)>>
             /\ c.mode = "Bot" => c2.out = <<>>

\* a Service in Work has just answered a Heartbeat, and a Bot has just
\* taken one in silence
C13_Witness ==
  \/ /\ conn["svc"].pstate = "Work" /\ live = {"svc"}
     /\ Emitted(conn["svc"], Heartbeat)
     /\ conn["svc"].out = <<encode(Heartbeat, <<>>)>>
  \/ /\ conn["bot"].pstate = "Work" /\ live = {"bot"}
     /\ Emitted(conn["bot"], Heartbeat)
     /\ conn["bot"].out = <<>>

\* the k-th request of endpoint c is pending and older than REQUEST_TIMEOUT
Overdue(c, k) ==
  /\ Pending(c, k)
  /\ c.reqs[k] \in DOMAIN c.timeouts
  /\ now - c.timeouts[c.reqs[k]] > REQUEST_TIMEOUT

\* C14: a timeout scan that finds a pending request older than
\* REQUEST_TIMEOUT invokes that request's callback with a Response carrying
\* the request's id and name and the error "timeout", removes the request's
\* record from all three tables, and leaves the Protocol state, the Transport
\* state and the socket as they were, with no disconnect notification.
C14_TimeoutResponse ==
  [][\A s \in Side : \A k \in 1..Len(conn[s].reqs) :
       LET c  == conn[s]
           c2 == conn'[s]
           id == c.reqs[k]
       IN  (Overdue(c, k) /\ CheckTimeout(s))
             => /\ \E i \in 1..Len(c2.calls) :
                     c2.calls[i] = [cb |-> k, id |-> id, name |-> c.names[id],
                                    error |-> TIMEOUT_ERROR]
                /\ c2.done[k] = c.done[k] + 1
                /\ id \notin DOMAIN c2.callbacks
                /\ id \notin DOMAIN c2.names
                /\ id \notin DOMAIN c2.timeouts
                /\ c2.pstate = c.pstate
                /\ c2.tstate = c.tstate
                /\ c2.sock = c.sock
                /\ c2.disc = c.disc]_vars

\* a scan has just timed a request out on a connection that is still in Work
C14_Witness ==
  \E s \in Side :
    /\ conn[s].pstate = "Work" /\ conn[s].tstate = "Head" /\ conn[s].sock = "open"
    /\ conn[s].disc = <<>>
    /\ Len(conn[s].reqs) >= 1 /\ ~Pending(conn[s], 1)
    /\ \E i \in 1..Len(conn[s].calls) : conn[s].calls[i].error = TIMEOUT_ERROR

\* C15: cancelling a pending request writes nothing and invokes nothing,
\* removes the request's id from the callback, name and timestamp tables, and
\* from then on no step (no Response carrying the id, no timeout scan) invokes
\* the callback of a request whose record is gone.
C15_CancelSilences ==
  [][\A s \in Side : \A k \in 1..Len(conn[s].reqs) :
       LET c  == conn[s]
           c2 == conn'[s]
           id == c.reqs[k]
       IN  /\ (Pending(c, k) /\ DoCancel(s, id))
                => /\ c2.out = <<>>
                   /\ c2.calls = <<>>
                   /\ c2.done = c.done
                   /\ id \notin DOMAIN c2.callbacks
                   /\ id \notin DOMAIN c2.names
                   /\ id \notin DOMAIN c2.timeouts
           /\ ~Pending(c, k)
                => /\ c2.done[k] = c.done[k]
                   /\ ~Pending(c2, k)
                   /\ \A i \in 1..Len(c2.calls) : c2.calls[i].cb # k]_vars

\* a request was cancelled, its callback never ran, and the connection with
\* its timeout scanner outlived the request's deadline
C15_Witness ==
  \E s \in Side :
    /\ Len(conn[s].reqs) >= 1 /\ ~Pending(conn[s], 1)
    /\ conn[s].done[1] = 0
    /\ conn[s].timer /\ conn[s].sock = "open" /\ conn[s].pstate = "Work"
    /\ now > REQUEST_TIMEOUT

\* C17, as stated: command, request, fetch and kick on a connection whose
\* Protocol is Closed write nothing and leave the request id counter and the
\* callback, name and timestamp tables as they were.
C17_ClosedNoOp ==
  [][\A s \in Side :
       LET c  == conn[s]
           c2 == conn'[s]
       IN  (/\ c.pstate = "Closed"
            /\ \/ \E name \in Commands : DoCommand(s, name) \/ DoRequest(s, name)
                                           \/ DoFetch(s, name)
               \/ \E reason \in DisconnectReason : DoKick(s, reason))
             => /\ c2.out = <<>>
                /\ c2.counter = c.counter
                /\ c2.callbacks = c.callbacks
                /\ c2.names = c.names
                /\ c2.timeouts = c.timeouts]_vars

\* C18, as stated: whatever socket events and local calls happen on a
\* connection, its onDisconnect is raised at most once.
C18_SingleDisconnect ==
  \A s \in Side : Len(conn[s].disc) <= 1

\* C20, as stated: when the Kick frame a Service wrote for reason r is the
\* next frame to reach a Bot in Handshake or Work, the Bot takes it in and,
\* once its socket closes, passes the enum value r to onDisconnect.
C20_KickReasonRoundTrip ==
  \A r \in DisconnectReason :
    LET c == conn["bot"]
    IN  (/\ live = Side /\ c.sock = "open" /\ AtFrameStart(c)
         /\ c.pstate \in {"Handshake", "Work"}
         /\ conn["svc"].kicked = <<ReasonText(r)>>
         /\ wire["bot"] # <<>>
         /\ Head(wire["bot"]) = encode(Kick, ReasonText(r)))
          => LET c1 == processData(Begin(c), Head(wire["bot"]))
                 c2 == TransportOnClose([Begin(c1) EXCEPT !.sock = "closed"])
             IN  c2.disc = Append(c.disc, Num(r))

\* all five tables of the Commander are empty
Cleared(c) ==
  /\ c.callbacks = EmptyMap /\ c.names = EmptyMap /\ c.timeouts = EmptyMap
  /\ c.commands = EmptyMap /\ c.requests = EmptyMap

\* C16: a step in which the close notification reaches the Commander (it
\* raises onDisconnect) ends with the pulse timer and the timeout scanner
\* stopped and the callback, name, timestamp, command and request-handler
\* tables empty; and once that has happened both timers stay stopped, no step
\* is a pulse tick or a timeout scan, nothing is written, and no request
\* callback is invoked.
C16_CloseClears ==
  [][\A s \in Side :
       LET c  == conn[s]
           c2 == conn'[s]
       IN  /\ Len(c2.disc) > Len(c.disc)
                => ~c2.timer /\ ~c2.pulseTimer /\ Cleared(c2)
           /\ Len(c.disc) >= 1
                => /\ ~c2.timer /\ ~c2.pulseTimer
                   /\ c2.calls = <<>> /\ c2.out = <<>>
                   /\ \A k \in 1..Len(c.done) : c2.done[k] = c.done[k]
                   /\ ~Tick(s) /\ ~CheckTimeout(s)]_vars

\* the Bot had subscribed and had two requests pending when its socket
\* closed; their deadline has passed and neither callback ran
C16_Witness ==
  LET c == conn["bot"]
  IN  /\ c.disc = <<Num(Normal)>> /\ c.sock = "closed"
      /\ c.reqs = <<0, 1>> /\ c.done = <<0, 0>>
      /\ Cleared(c) /\ ~c.timer /\ ~c.pulseTimer
      /\ now > REQUEST_TIMEOUT

\* C19: the k-th call of request() or fetch() on a connection is given id
\* k - 1, whichever of the two it is, and stores its callback under that id,
\* which no pending record holds; no other step, command() included, moves
\* the counter; and every pending record is filed under the id its own call
\* returned, so no two pending records share an id.
C19_IdsSequential ==
  [][\A s \in Side :
       LET c  == conn[s]
           c2 == conn'[s]
           n  == Len(c.reqs)
       IN  /\ (\E name \in Commands : DoRequest(s, name) \/ DoFetch(s, name))
                => /\ c2.reqs = Append(c.reqs, n)
                   /\ c2.counter = n + 1
                   /\ n \notin DOMAIN c.callbacks
                   /\ c2.callbacks[n] = n + 1
           /\ (\A name \in Commands : ~DoRequest(s, name) /\ ~DoFetch(s, name))
                => c2.counter = c.counter /\ c2.reqs = c.reqs
           /\ \A id \in DOMAIN c2.callbacks :
                /\ c2.callbacks[id] \in 1..Len(c2.reqs)
                /\ c2.reqs[c2.callbacks[id]] = id]_vars

\* two requests are pending at once, under ids 0 and 1, on a Bot in Work
C19_Witness ==
  LET c == conn["bot"]
  IN  /\ c.reqs = <<0, 1>> /\ c.counter = 2
      /\ DOMAIN c.callbacks = {0, 1}
      /\ c.callbacks[0] # c.callbacks[1]
      /\ c.sock = "open" /\ c.pstate = "Work"

\* the frame of a Command envelope with the given name
CommandFrame(name) == encode(Data, PayloadEncode(Command, name, 0, ""))

\* the invocations a list of callbacks gets for an envelope with the given name
Invocations(list, name) == [i \in 1..Len(list) |-> [cb |-> list[i], name |-> name]]

Without(list, x) == SelectSeq(list, LAMBDA y : y # x)

\* C22, as stated: after off(n, cb) a Command named n that reaches the Bot in
\* Work does not invoke cb, however often cb had been subscribed, and invokes
\* the other callbacks of n in their former order; after off(n) without a
\* callback it invokes nothing.
C22_OffSilences ==
  \A n \in SubNames : \A cb \in Callbacks \cup {Undefined} :
    LET c  == conn["bot"]
        c1 == cancelCommand(Begin(c), n, cb)
        c2 == processData(Begin(c1), CommandFrame(n))
    IN  (Running("bot") /\ c.sock \in {"open", "ended"} /\ AtFrameStart(c)
         /\ c.pstate = "Work")
          => IF cb = Undefined
             THEN c2.fired = <<>>
             ELSE c2.fired = Invocations(Without(Subscribed(c, n), cb), n)

\* the frame of a Request envelope with the given name
RequestFrame(name) == encode(Data, PayloadEncode(Request, name, 0, ""))

\* the handler set for a request name, as a list of at most one callback
Handler(c, name) == IF name \in DOMAIN c.requests THEN <<c.requests[name]>> ELSE <<>>

\* C23: a Bot holds at most one handler per request name. onRequest for a name
\* that has a handler changes nothing, so a Request with that name still
\* invokes the first handler and only it; after offRequest a Request with the
\* name invokes no handler, and an onRequest that follows is accepted and its
\* callback is the one invoked.
C23_SingleHandler ==
  \A n \in SubNames : \A cb \in Callbacks :
    LET c    == conn["bot"]
        set  == addOnRequest(Begin(c), n, cb)
        off  == cancelOnRequest(Begin(c), n)
        anew == addOnRequest(off, n, cb)
        Ask(d) == processData(Begin(d), RequestFrame(n)).fired
    IN  (Running("bot") /\ c.sock \in {"open", "ended"} /\ AtFrameStart(c)
         /\ c.pstate = "Work")
          => /\ Ask(c) = Invocations(Handler(c, n), n)
             /\ n \in DOMAIN c.requests
                  => set.requests = c.requests /\ Ask(set) = Ask(c)
             /\ n \notin DOMAIN off.requests /\ Ask(off) = <<>>
             /\ anew.requests[n] = cb
             /\ Ask(anew) = <<[cb |-> cb, name |-> n]>>

\* cb1 handles echo; a Request named echo has just invoked it
C23_Witness ==
  LET c == conn["bot"]
  IN  /\ c.pstate = "Work"
      /\ Handler(c, "echo") = <<"cb1">>
      /\ c.fired = <<[cb |-> "cb1", name |-> "echo"]>>

\* the Clients in the Server's list
Listed == {s \in live : conn[s].listed}

\* C24, as stated: Server.stop writes exactly one Kick(ServerDown) frame to
\* every Client in its list and leaves that Client's Transport Closed, and the
\* list is empty afterwards.
C24_StopKicksAll ==
  [][ServerStop
       => /\ \A s \in Listed :
               /\ conn'[s].out = <<encode(Kick, ReasonText(ServerDown))>>
               /\ conn'[s].tstate = "Closed"
          /\ \A s \in Side : ~conn'[s].listed]_vars

\* C24, amended: Server.stop writes exactly one Kick(ServerDown) frame to
\* every Client in its list whose Protocol and Transport are not Closed and
\* nothing to the others, leaves the Protocol and the Transport of every
\* listed Client Closed, and the list is empty afterwards.
C24_StopKicksOpen ==
  [][ServerStop
       => /\ \A s \in Listed :
               /\ conn'[s].out = IF conn[s].pstate # "Closed" /\ conn[s].tstate # "Closed"
                                 THEN <<encode(Kick, ReasonText(ServerDown))>>
                                 ELSE <<>>
               /\ conn'[s].tstate = "Closed"
               /\ conn'[s].pstate = "Closed"
          /\ \A s \in Side \ Listed : conn'[s].out = <<>>
          /\ \A s \in Side : ~conn'[s].listed]_vars

\* stop has just kicked both Clients of the list
C24_Witness ==
  /\ live = Side
  /\ \A s \in Side :
       /\ conn[s].out = <<encode(Kick, ReasonText(ServerDown))>>
       /\ conn[s].tstate = "Closed" /\ ~conn[s].listed
  /\ conn["svc"].slog = <<>>

\* what the Server's receivers are told of one event, in the order required:
\* the Before-extensions, the Service, the After-extensions
InOrder(c, event) ==
  [i \in 1..Len(c.before) |-> [who |-> c.before[i], event |-> event]]
    \o <<[who |-> TheService, event |-> event]>>
    \o [i \in 1..Len(c.after) |-> [who |-> c.after[i], event |-> event]]

\* C25, as stated: every connect, ready and disconnect event of a Client is
\* passed to all Before-extensions in registration order, then to the
\* Service, then to all After-extensions in registration order, also when
\* the disconnect follows Server.stop.
C25_ExtensionOrder ==
  [][\A s \in Side :
       LET c  == conn[s]
           c2 == conn'[s]
       IN  /\ ServerConnect(s) => c2.slog = InOrder(c2, "connect")
           /\ (conn' # conn /\ Readied(c2)) => c2.slog = InOrder(c2, "ready")
           /\ Len(c2.disc) = Len(c.disc) + 1 => c2.slog = InOrder(c2, "disconnect")]_vars

\* the step handed a block to the Protocol, which passed it on or discarded it
Seen(c) == c.emits # <<>> \/ c.caught # <<>>

\* the Transport has dropped a chunk for the undefined block type of its head
Dropped(c) ==
  c.tstate = "Head" /\ c.head.offset = c.head.size /\ ~BlockCheck(c.head.buffer[1])

\* C26, as stated: a chunk whose head has an undefined block type is dropped
\* without closing anything, and a whole valid frame that arrives as the next
\* chunk is passed up.
C26_FramingRecovers ==
  [][\A s \in Side :
       LET c  == conn[s]
           c2 == conn'[s]
       IN  /\ (AtFrameStart(c) /\ Receive(s, encode(7, <<>>)))
                => Dropped(c2) /\ c2.pstate = c.pstate /\ c2.sock = c.sock
           /\ (Dropped(c) /\ \E f \in PeerFrames : BlockCheck(f[1]) /\ Receive(s, f))
                => Seen(c2)]_vars

\* the three length octets of a frame head, most significant first
BigEndian(n) == <<(n \div 65536) % 256, (n \div 256) % 256, n % 256>>

\* C27: the frame Block.encode makes of a block type t and a body b is 4 + |b|
\* octets long, begins with t and the three octets of |b|, most significant
\* first, and carries b after them; Transport.getPackageSize reads |b| from
\* its head, and Block.decode gives back t and b.
C27_RoundTrip ==
  /\ Len(frames) >= 1 =>
       LET t == frames[1].type
           b == frames[1].body
       IN  /\ Len(stream) = BLOCK_HEAD + Len(b)
           /\ stream[1] = t
           /\ SubSeq(stream, 2, BLOCK_HEAD) = BigEndian(Len(b))
           /\ SubSeq(stream, BLOCK_HEAD + 1, Len(stream)) = b
           /\ getPackageSize(SubSeq(stream, 1, BLOCK_HEAD)) = Len(b)
  /\ Len(frames) = 2 => frames[2] = frames[1]

\* a Kick block with a body of two different octets has made the round trip
C27_Witness ==
  /\ Len(frames) = 2
  /\ frames[2] = [type |-> Kick, body |-> <<255, 1>>]
  /\ stream = <<Kick, 0, 0, 2, 255, 1>>

\* a Data frame with a Command or a Request for a name the Service has not
Unregistered(frame) ==
  /\ decode(frame).type = Data
  /\ LET payload == PayloadDecode(decode(frame).body)
     IN  /\ payload.type \in {Command, Request}
         /\ payload.name \notin Commands

\* C28: a step in which a Service receives a Command or a Request whose name
\* is not in its table of commands invokes no handler and writes no frame; and
\* the callback of a request for such a name is called only with the timeout
\* error, in a step of the requester's own timeout scan.
C28_UnknownNameDiscarded ==
  [][/\ (/\ wire["svc"] # <<>>
          /\ Unregistered(Head(wire["svc"]))
          /\ Deliver("svc"))
           => /\ conn'["svc"].fired = <<>>
              /\ conn'["svc"].out = <<>>
     /\ conn'["bot"].calls # conn["bot"].calls =>
          \A i \in 1..Len(conn'["bot"].calls) :
            conn'["bot"].calls[i].name \notin Commands
              => /\ conn'["bot"].calls[i].error = TIMEOUT_ERROR
                 /\ CheckTimeout("bot")]_vars

\* the Service has discarded a Request for "slow", and the Bot's callback for
\* it has been completed by the timeout
C28_Witness ==
  /\ conn["svc"].emits = <<[type |-> Data, st |-> "Work"]>>
  /\ conn["svc"].fired = <<>>
  /\ conn["svc"].out = <<>>
  /\ \E i \in 1..Len(conn["bot"].calls) :
       /\ conn["bot"].calls[i].name = "slow"
       /\ conn["bot"].calls[i].error = TIMEOUT_ERROR

\* C29: two Command frames that reach a Bot in Work in one chunk invoke the
\* callbacks of the first frame and then those of the second; and a request, a
\* command and a response called one after the other on an endpoint that is
\* not closed write their three frames to the connection in that order.
C29_WireOrder ==
  LET c == conn["bot"]
  IN  /\ \A n1, n2 \in SubNames :
           (Running("bot") /\ c.sock \in {"open", "ended"} /\ AtFrameStart(c)
            /\ c.pstate = "Work")
             => processData(Begin(c), CommandFrame(n1) \o CommandFrame(n2)).fired
                  = Invocations(Subscribed(c, n1), n1) \o Invocations(Subscribed(c, n2), n2)
      /\ \A n1, n2 \in SubNames, req \in Asked :
           (c.pstate # "Closed" /\ c.tstate # "Closed")
             => Burst(Begin(c), n1, n2, req, now).out
                  = <<encode(Data, PayloadEncode(Request, n1, c.counter, "")),
                      encode(Data, PayloadEncode(Command, n2, 0, "")),
                      encode(Data, PayloadEncode(Response, req.name, req.id, ""))>>

\* a chunk with a Command named slow and then one named echo has run cb2 and
\* then cb1, on a Bot that had made its calls before
C29_Witness ==
  LET c == conn["bot"]
  IN  /\ c.fired = <<[cb |-> "cb2", name |-> "slow"], [cb |-> "cb1", name |-> "echo"]>>
      /\ c.reqs = <<0>>

\* the frame is a Data block whose envelope fails the check of the Payload
BadPayload(frame) ==
  /\ decode(frame).type = Data
  /\ ~PayloadCheck(PayloadDecode(decode(frame).body))

RECURSIVE Beats(_)
Beats(out) ==
  IF out = <<>> THEN 0
  ELSE (IF Head(out) = HeartbeatFrame THEN 1 ELSE 0) + Beats(Tail(out))

\* C31: a Data frame with a valid envelope that the Protocol passes to the
\* Commander leaves the pulse counter at 0; in a Bot it writes exactly one
\* Heartbeat, and that Heartbeat is written before anything the dispatch of
\* the envelope writes; in a Service it writes no Heartbeat.
C31_BotBeatsOnData ==
  \A s \in Side : \A f \in BeatFrames :
    LET c  == conn[s]
        c2 == processData(Begin(c), f)
    IN  (/\ Running(s) /\ c.sock \in {"open", "ended"}
         /\ decode(f).type = Data
         /\ c2.emits # <<>>)
          => /\ c2.checks = 0
             /\ c.mode = "Bot" =>
                  /\ Beats(c2.out) = 1
                  /\ Head(c2.out) = HeartbeatFrame
                  /\ (\E i \in 1..Len(c2.fired) : c2.fired[i].cb = "reply")
                       => c2.out = <<HeartbeatFrame,
                                     encode(Data, PayloadEncode(Response, "echo", 0, ""))>>
             /\ c.mode = "Service" => Beats(c2.out) = 0

\* a Bot has taken a Request: it wrote its Heartbeat and then the answer of
\* its handler
C31_Witness ==
  LET c == conn["bot"]
  IN  /\ c.fired = <<[cb |-> "reply", name |-> "echo"]>>
      /\ c.out = <<HeartbeatFrame, encode(Data, PayloadEncode(Response, "echo", 0, ""))>>
      /\ c.checks = 0

\* C32: once the Transport of an endpoint is Closed it stays Closed and no step
\* of the endpoint writes a frame, whatever the Protocol state; and kick on an
\* endpoint whose Transport is not Closed and whose socket is open writes the
\* Kick frame of its reason and nothing else, and leaves the socket ended and
\* the Transport Closed.
C32_ClosedWritesNothing ==
  [][\A s \in Side :
       /\ conn[s].tstate = "Closed" =>
            /\ conn'[s].tstate = "Closed"
            /\ conn'[s].out = <<>>
       /\ \A reason \in DisconnectReason :
            LET c2 == kick(Begin(conn[s]), reason)
            IN  (conn[s].tstate # "Closed" /\ conn[s].sock = "open")
                  => /\ c2.out = <<encode(Kick, ReasonText(reason))>>
                     /\ c2.sock = "ended"
                     /\ c2.tstate = "Closed"]_vars

\* an endpoint has kicked its peer: the Kick was written, and the socket was
\* ended after it
C32_Witness ==
  \E s \in Side :
    /\ conn[s].out = <<encode(Kick, ReasonText(Unknown))>>
    /\ conn[s].sock = "ended"
    /\ conn[s].tstate = "Closed"
    /\ conn[s].pstate = "Closed"

\* C33: the read loop of processData exits on every chunk, also when the
\* handler of a frame in the chunk closes the Transport with octets of the
\* chunk still unread.
C33_ReadLoopExits == \A s \in Side : ~conn[s].hung

\* C34: a step in which the timeout scanner runs leaves the pulse counter as it
\* was and writes no frame, whether or not it completes a request with the
\* timeout error.
C34_TimeoutIsSilent ==
  [][\A s \in Side :
       (conn'[s].checks # conn[s].checks \/ conn'[s].out # <<>>) => ~CheckTimeout(s)]_vars

\* C35: the Protocol of a connection that has reached Work stays in Work until
\* it is Closed: no step moves it from Work back to Handshake or to Start.
C35_WorkUntilClosed ==
  [][\A s \in Side :
       conn[s].pstate = "Work" => conn'[s].pstate \in {"Work", "Closed"}]_vars

\* C36: onReady has fired at most once on a connection, whatever blocks the
\* peer has sent and however often the user has called handshake().
C36_ReadyOnce == \A s \in Side : conn[s].ready <= 1

\* the number of invocations of the callback
RECURSIVE Invoked(_, _)
Invoked(fired, cb) ==
  IF fired = <<>> THEN 0
  ELSE (IF Head(fired).cb = cb THEN 1 ELSE 0) + Invoked(Tail(fired), cb)

\* C37: a Command named echo that reaches a Bot in Work invokes exactly once
\* every callback that is subscribed to echo when it arrives and that no
\* callback unsubscribes, also when callbacks of the list unsubscribe
\* themselves or another callback while the Command is fanned out.
C37_OffWhileFanOut ==
  LET c    == conn["bot"]
      list == Subscribed(c, "echo")
      c2   == processData(Begin(c), CommandFrame("echo"))
  IN  (Running("bot") /\ c.sock \in {"open", "ended"} /\ AtFrameStart(c)
       /\ c.pstate = "Work")
        => \A i \in 1..Len(list) :
             list[i] \in {"cb1", "offSelf", "offLast"} => Invoked(c2.fired, list[i]) = 1

\* C38: in every step in which a Client of a Server reports its disconnect,
\* the Server's list holds the Client when the step begins.
C38_DisconnectOfListed ==
  [][\A s \in Side :
       Len(conn'[s].disc) = Len(conn[s].disc) + 1 => conn[s].listed]_vars

\* C39: an extension is in the Before and After lists of the Server at most
\* once, and its init() has been called at most once, however the calls of
\* use for it overlap.
C39_UseOnce ==
  \A extension \in UseExtensions :
    /\ Occurs(conn["svc"].before \o conn["svc"].after, extension) <= 1
    /\ Occurs(conn["svc"].inits, extension) <= 1

\* C40: whatever its limit is, a Service in Work whose Bot is in Work, has its
\* Transport open and does nothing but tick writes no Kick: between two ticks
\* of the Service that would exceed the limit a Heartbeat of the Bot comes in.
C40_IdleBotNotKicked ==
  [][(/\ conn["svc"].pstate = "Work"
      /\ conn["bot"].pstate = "Work"
      /\ conn["bot"].tstate # "Closed")
       => \A i \in 1..Len(conn'["svc"].out) : conn'["svc"].out[i][1] # Kick]_vars

====
